---- MODULE Spec2Model ----
(***************************************************************************)
(* s3-ext: paginated listing (ObjectIter, ObjectStream), the get-object    *)
(* overlay (GetObjectIter, GetObjectStream; src/src/iter.rs), multipart    *)
(* upload (upload_multipart, src/src/upload.rs) and download_to_file       *)
(* (src/src/lib.rs) as state machines.                                     *)
(*                                                                         *)
(* The storage service is the environment.  A listing of N entries is the  *)
(* sequence 1..N (entry i has the i-th smallest key); the service hands it *)
(* out in consecutive pages whose sizes are chosen in Init.  Every await   *)
(* of a service call is a point where the model suspends the operation:    *)
(* the call action runs the code up to the await, the resume action runs   *)
(* it from the response to the next await or to the return.                *)
(***************************************************************************)
EXTENDS Integers, Sequences, FiniteSets, TLC

\* ------------------------------------------------------------------ bounds
MaxEntries == 3      \* entries in the listing
MaxPage    == 2      \* entries per page the service returns in the model
MaxPages   == 3      \* pages of a listing
MaxCalls   == 4      \* operations started on one ObjectIter before it is dropped
MaxSource  == 3      \* bytes in the upload source
MaxPartSize == 2     \* part_size
MaxETag    == 2      \* distinct ETags the service returns
MaxItems   == 4      \* items taken from one ObjectStream or its twin ObjectIter
MaxBody    == 3      \* bytes of a downloaded object
MaxLoops   == 2      \* nth, count and last calls on one ObjectIter under fairness
MaxOps     == 1      \* nth, last and count calls on one GetObjectIter

NoToken  == 0        \* Option::None of a continuation token
NoPrefix == "None"   \* Option::None of a prefix
NoResult == [op |-> "none", arg |-> 0, kind |-> "pending", val |-> 0]

VARIABLES
    sizes,          \* service: sizes of the consecutive pages of the listing
    iter,           \* ObjectIter: objects, continuation_token, exhausted
    pc,             \* "idle", "dropped", or the operation awaiting a list call
    nth_n,          \* local n of nth
    count_acc,      \* local count of count
    last_objects,   \* local objects of last_internal
    result,         \* value returned by the operation that returned last
    delivered,      \* ghost: entries the service has sent to this ObjectIter
    ncalls,         \* ghost: operations returned on this ObjectIter
    only_next,      \* ghost: all of them were next_object calls returning Ok
    yielded,        \* ghost: entries they returned, while only_next
    first,          \* ghost: what the first of its first two operations returned
    k0,             \* ghost: entries consumed when the running operation was called
    fresh_nth,      \* ghost: what nth returned as the first operation on an
                    \* ObjectIter, kept while only next_object calls follow on
                    \* this one or on fresh ones
    nlist,          \* service: list calls received from this ObjectIter
    nfail,          \* service: how many of them it failed
    req_token,      \* service: continuation token of the latest of them
    u_pc,           \* upload_multipart: the await it is suspended on, "off" or "done"
    source,         \* bytes of the source not yet read
    part_size,      \* argument part_size
    upload_id,      \* upload id taken from the create response
    part_number,    \* loop variable of the read loop
    body,           \* body of the part being uploaded
    parts,          \* Vec<CompletedPart>
    err,            \* error returned by upload_multipart_needs_abort_on_error
    ret,            \* value returned by upload_multipart
    calls,          \* service: the multipart calls received, with their outcome
    svc_in_progress,\* service: the multipart upload is in progress
    fail_at,        \* ghost: number of calls made when the first step failed
    src0,           \* ghost: the bytes of the source when upload_multipart was called
    reads,          \* ghost: what the reads of the source returned (ReadErr: failed)
    svc_etags,      \* service: (part number, ETag) of each part it accepted, in order
    complete_req,   \* service: the part list of the complete request, once issued
    s_iter,         \* ObjectStream: iter
    fut,            \* ObjectStream: fut, with the request it carries and its state
    s_item,         \* what the last poll_next returned
    s_items,        \* the items poll_next returned Ready with, in order
    s_reqs,         \* service: continuation tokens of the list calls of the stream
    svc_inflight,   \* service: list calls of the stream received and not answered
    t_iter,         \* an ObjectIter over the same listing, used through next_object
    t_items,        \* what its next_object calls returned, in order
    t_reqs,         \* service: continuation tokens of its list calls
    outcomes,       \* service: whether the k-th list call of a client succeeds
    g_mode,         \* the overlay in use: "iter" (GetObjectIter) or "stream"
    g_inner,        \* GetObjectIter: inner (an ObjectIter with its request fields)
    g_bucket,       \* GetObjectIter: bucket
    g_pc,           \* retrieve_next: "idle", or the call it awaits ("list", "get")
    g_request,      \* retrieve: the GetObjectRequest of the awaited get call
    g_key,          \* GetObjectStream: key
    fut0,           \* GetObjectStream: fut0, with its request and its state
    fut1,           \* GetObjectStream: fut1, with its request and its state
    g_items,        \* the items the overlay returned, in order
    nokey,          \* service: the listed entries that come without a key
    g_lists,        \* service: the list requests received from the overlay
    g_gets,         \* service: the get-object requests received from the overlay
    g_list_inflight,\* service: list calls received and not answered
    g_get_inflight, \* service: get-object calls received and not answered
    c_a,            \* an ObjectIter
    c_b,            \* its clone, once made
    c_cloned,       \* c_a.clone() has been called
    c_rem0,         \* ghost: the entries c_a had still to yield when it was cloned
    c_ya,           \* ghost: entries next_object returned on c_a since the clone
    c_yb,           \* ghost: entries next_object returned on c_b
    c_na,           \* ghost: nth has been called on c_a since the clone
    c_nb,           \* ghost: nth has been called on c_b
    d_pc,           \* download_to_file: the await it is suspended on, "off" or "done"
    d_object,       \* service: the bytes of the object asked for
    d_got,          \* service: how it answered the get-object call
    d_body,         \* the bytes of resp.body not yet copied
    d_file,         \* file system: the target path
    d_file0,        \* ghost: the target path when download_to_file was called
    d_ret,          \* value returned by download_to_file
    g_n,            \* GetObjectIter::nth: local n of ObjectIter::nth
    g_count,        \* GetObjectIter::count: local count of ObjectIter::count
    g_last,         \* GetObjectIter::last: local objects of last_internal
    g_consumed,     \* the GetObjectIter was moved into count or last
    g_ops,          \* ghost: the nth, last and count calls made on the overlay
    v_conv,         \* ObjectStream::into_iter has been called
    v_iter,         \* the ObjectIter it returned
    v_items,        \* results of next_object on that ObjectIter
    f_pc,           \* upload_from_file: the await it is suspended on, "off" or "done"
    f_file,         \* file system: the source path
    f_opened,       \* how File::open answered
    f_content,      \* upload: the local content filled by read_to_end
    f_rest,         \* the bytes of the source file not yet read
    f_puts,         \* service: the bodies of the put-object requests received
    f_object,       \* service: the object stored under the target key
    f_ret           \* value returned by upload_from_file

ivars == <<sizes, iter, pc, nth_n, count_acc, last_objects, result, delivered,
           yielded, ncalls, only_next, first, k0, fresh_nth, nlist, nfail,
           req_token>>

ulog == <<src0, reads, svc_etags, complete_req>>

uvars == <<u_pc, source, part_size, upload_id, part_number, body, parts, err,
           ret, calls, svc_in_progress, fail_at, ulog>>

svars == <<s_iter, fut, s_item, s_items, s_reqs, svc_inflight, t_iter, t_items,
           t_reqs, outcomes>>

gvars == <<g_mode, g_inner, g_bucket, g_pc, g_request, g_key, fut0, fut1, g_items,
           nokey, g_lists, g_gets, g_list_inflight, g_get_inflight>>

cvars == <<c_a, c_b, c_cloned, c_rem0, c_ya, c_yb, c_na, c_nb>>

dvars == <<d_pc, d_object, d_got, d_body, d_file, d_file0, d_ret>>

ovars == <<g_n, g_count, g_last, g_consumed, g_ops>>

vvars == <<v_conv, v_iter, v_items>>

fvars == <<f_pc, f_file, f_opened, f_content, f_rest, f_puts, f_object, f_ret>>

yvars == <<ovars, vvars, fvars>>

xvars == <<gvars, cvars, dvars, yvars>>

vars == <<ivars, uvars, svars, xvars>>

\* ------------------------------------------------------------ the service
RECURSIVE SumTo(_, _)
SumTo(s, j) == IF j = 0 THEN 0 ELSE s[j] + SumTo(s, j - 1)

Pagings ==
    { s \in UNION { [1..k -> 0..MaxPage] : k \in 1..MaxPages } :
        SumTo(s, Len(s)) <= MaxEntries }

N == SumTo(sizes, Len(sizes))

PageEntries(j) == [i \in 1..sizes[j] |-> SumTo(sizes, j - 1) + i]

\* list_objects_v2 for a request carrying continuation token t: the page after
\* page t, with a next token unless it is the last page.
list_objects_v2(t) ==
    [contents |-> PageEntries(t + 1),
     next_continuation_token |-> IF t + 1 < Len(sizes) THEN t + 1 ELSE NoToken]

\* -------------------------------------------------------------- ObjectIter
ObjectIter_new == [objects |-> <<>>, continuation_token |-> NoToken, exhausted |-> FALSE]

\* faulty variant: a response without next token does not set exhausted
update_objects_no_exhaust(it, resp) ==
    [it EXCEPT !.objects = resp.contents,
               !.continuation_token = IF resp.next_continuation_token # NoToken
                                      THEN resp.next_continuation_token
                                      ELSE it.continuation_token]

\* faulty variant: the request is rebuilt from the new token alone
update_objects_drops_prefix(it, resp) ==
    [update_objects_no_exhaust(it, resp) EXCEPT
        !.prefix = NoPrefix,
        !.exhausted = IF resp.next_continuation_token # NoToken
                      THEN it.exhausted ELSE TRUE]

\* only objects, continuation_token and exhausted are assigned
update_objects(it, resp) ==
    [it EXCEPT !.objects = resp.contents,
               !.continuation_token = IF resp.next_continuation_token # NoToken
                                      THEN resp.next_continuation_token
                                      ELSE it.continuation_token,
               !.exhausted = IF resp.next_continuation_token # NoToken
                             THEN it.exhausted ELSE TRUE]

\* next_objects with a successful list call
next_objects(it) == update_objects(it, list_objects_v2(it.continuation_token))

Consumed == delivered - Len(iter.objects)

Awaiting == pc \in {"next", "nth", "count", "last"}

\* an operation returns: record the value and the ghosts
Return(op, arg, kind, val) ==
    /\ result' = [op |-> op, arg |-> arg, kind |-> kind, val |-> val]
    /\ ncalls' = ncalls + 1
    /\ only_next' = (only_next /\ op = "next" /\ kind # "err")
    /\ first' = IF ncalls = 0 THEN result' ELSE IF ncalls = 1 THEN first ELSE NoResult
    /\ yielded' = IF ~only_next' THEN <<>>
                  ELSE IF kind = "some" THEN Append(yielded, val) ELSE yielded
    /\ fresh_nth' = IF ncalls = 0 /\ op = "nth" /\ kind # "err" THEN result'
                    ELSE IF only_next' THEN fresh_nth ELSE NoResult
    /\ nfail' = IF kind = "err" THEN nfail + 1 ELSE nfail
    /\ UNCHANGED <<nlist, req_token>>

\* an operation suspends on a list call whose request carries token t
Suspend(op, arg, t) ==
    /\ pc' = op
    /\ result' = [NoResult EXCEPT !.op = op, !.arg = arg]
    /\ nlist' = nlist + 1
    /\ req_token' = t
    /\ UNCHANGED <<ncalls, only_next, first, yielded, fresh_nth, nfail>>

Locals0 == /\ nth_n' = 0 /\ count_acc' = 0 /\ last_objects' = <<>>

\* ---- ObjectIter::new: a fresh iterator over the same listing
new ==
    /\ pc \in {"idle", "dropped"}
    /\ iter' = ObjectIter_new
    /\ pc' = "idle"
    /\ Locals0
    /\ result' = NoResult
    /\ delivered' = 0 /\ yielded' = <<>> /\ ncalls' = 0 /\ only_next' = TRUE
    /\ first' = NoResult /\ k0' = 0
    /\ nlist' = 0 /\ nfail' = 0 /\ req_token' = NoToken
    /\ UNCHANGED <<sizes, fresh_nth, uvars, svars, xvars>>

\* ---- next_object
next_object_call ==
    /\ pc = "idle" /\ ncalls < MaxCalls
    /\ k0' = Consumed
    /\ IF iter.objects # <<>>
       THEN /\ iter' = [iter EXCEPT !.objects = Tail(iter.objects)]
            /\ Return("next", 0, "some", Head(iter.objects))
            /\ pc' = "idle"
       ELSE IF iter.exhausted
       THEN /\ Return("next", 0, "none", 0)
            /\ UNCHANGED <<iter, pc>>
       ELSE /\ Suspend("next", 0, iter.continuation_token)
            /\ UNCHANGED iter
    /\ UNCHANGED <<sizes, nth_n, count_acc, last_objects, delivered, uvars, svars, xvars>>

\* the value of self.objects.next() after next_objects() returned Ok
next_object_after_fetch(it) ==
    IF it.objects # <<>> THEN [kind |-> "some", val |-> Head(it.objects), objects |-> Tail(it.objects)]
    ELSE [kind |-> "none", val |-> 0, objects |-> <<>>]

next_object_resume ==
    /\ pc = "next"
    /\ LET it == next_objects(iter)
           r  == next_object_after_fetch(it)
       IN /\ iter' = [it EXCEPT !.objects = r.objects]
          /\ delivered' = delivered + Len(it.objects)
          /\ Return("next", 0, r.kind, r.val)
    /\ pc' = "idle"
    /\ UNCHANGED <<sizes, nth_n, count_acc, last_objects, k0, uvars, svars, xvars>>

\* ---- nth
\* faulty variant: the page is not skipped when it holds exactly n entries
nth_continue_strict(it, m) == Len(it.objects) < m /\ ~it.exhausted

\* faulty variant: the loop goes on fetching after the last page
nth_continue_ignores_exhausted(it, m) == Len(it.objects) <= m

nth_continue(it, m) == Len(it.objects) <= m /\ ~it.exhausted

\* the while loop of nth from its test, on iterator state it with local n = m
nth_loop(it, arg, m) ==
    IF nth_continue(it, m)
    THEN /\ nth_n' = m - Len(it.objects)
         /\ iter' = it
         /\ Suspend("nth", arg, it.continuation_token)
    ELSE /\ nth_n' = 0
         /\ pc' = "idle"
         /\ IF m < Len(it.objects)
            THEN /\ iter' = [it EXCEPT !.objects = SubSeq(it.objects, m + 2, Len(it.objects))]
                 /\ Return("nth", arg, "some", it.objects[m + 1])
            ELSE /\ iter' = [it EXCEPT !.objects = <<>>]
                 /\ Return("nth", arg, "none", 0)

nth_call(m) ==
    /\ pc = "idle" /\ ncalls < MaxCalls
    /\ k0' = Consumed
    /\ nth_loop(iter, m, m)
    /\ UNCHANGED <<sizes, count_acc, last_objects, delivered, uvars, svars, xvars>>

nth_resume ==
    /\ pc = "nth"
    /\ LET it == next_objects(iter)
       IN /\ delivered' = delivered + Len(it.objects)
          /\ nth_loop(it, result.arg, nth_n)
    /\ UNCHANGED <<sizes, count_acc, last_objects, k0, uvars, svars, xvars>>

\* ---- count (consumes the iterator)
\* faulty variant: the buffered entries are not counted
count_start_zero(it) == 0

count_start(it) == Len(it.objects)

count_loop(it, c) ==
    IF ~it.exhausted
    THEN /\ count_acc' = c
         /\ Suspend("count", 0, it.continuation_token)
    ELSE /\ count_acc' = 0
         /\ pc' = "dropped"
         /\ Return("count", 0, "num", c)

count_call ==
    /\ pc = "idle" /\ ncalls < MaxCalls
    /\ k0' = Consumed
    /\ count_loop(iter, count_start(iter))
    /\ UNCHANGED <<sizes, iter, nth_n, last_objects, delivered, uvars, svars, xvars>>

count_resume ==
    /\ pc = "count"
    /\ LET it == next_objects(iter)
       IN /\ iter' = it
          /\ delivered' = delivered + Len(it.objects)
          /\ count_loop(it, count_acc + Len(it.objects))
    /\ UNCHANGED <<sizes, nth_n, last_objects, k0, uvars, svars, xvars>>

\* ---- last / last_internal (consumes the iterator)
seq_last(s) == IF s = <<>> THEN [kind |-> "none", val |-> 0]
               ELSE [kind |-> "some", val |-> s[Len(s)]]

\* the page last_internal keeps after a fetch: the fetched one if non-empty
\* faulty variant: an empty fetched page replaces the kept one
last_keep_always(kept, fetched) == fetched

last_keep(kept, fetched) == IF Len(fetched) > 0 THEN fetched ELSE kept

last_loop(it, objs) ==
    IF ~it.exhausted
    THEN /\ last_objects' = objs
         /\ Suspend("last", 0, it.continuation_token)
    ELSE /\ last_objects' = <<>>
         /\ pc' = "dropped"
         /\ Return("last", 0, seq_last(objs).kind, seq_last(objs).val)

last_call ==
    /\ pc = "idle" /\ ncalls < MaxCalls
    /\ k0' = Consumed
    /\ iter' = [iter EXCEPT !.objects = <<>>]
    /\ last_loop(iter, iter.objects)
    /\ UNCHANGED <<sizes, nth_n, count_acc, delivered, uvars, svars, xvars>>

last_resume ==
    /\ pc = "last"
    /\ LET it == next_objects(iter)
           kept == last_keep(last_objects, it.objects)
       IN /\ iter' = IF Len(it.objects) > 0 THEN [it EXCEPT !.objects = <<>>] ELSE it
          /\ delivered' = delivered + Len(it.objects)
          /\ last_loop(it, kept)
    /\ UNCHANGED <<sizes, nth_n, count_acc, k0, uvars, svars, xvars>>

\* ---- the awaited list call fails: `?` returns the error
\* faulty variant: the failure also resets the cursor
list_error_resets_cursor ==
    /\ Awaiting
    /\ Return(pc, result.arg, "err", 0)
    /\ pc' = IF pc \in {"next", "nth"} THEN "idle" ELSE "dropped"
    /\ Locals0
    /\ iter' = [iter EXCEPT !.continuation_token = NoToken]
    /\ UNCHANGED <<sizes, delivered, k0, uvars, svars, xvars>>

list_error ==
    /\ Awaiting
    /\ Return(pc, result.arg, "err", 0)
    /\ pc' = IF pc \in {"next", "nth"} THEN "idle" ELSE "dropped"
    /\ Locals0
    /\ UNCHANGED <<sizes, iter, delivered, k0, uvars, svars, xvars>>

\* -------------------------------------------------------- upload_multipart
NoId  == 0
NoRet == [kind |-> "pending", err |-> "none"]
NoErr == "none"
ReadErr == -1
NoReq == [sent |-> FALSE, parts |-> <<>>]

Call(c, ok, pn, b) == [call |-> c, ok |-> ok, part_number |-> pn, body |-> b]

\* upload_multipart returns v
u_return(v) == /\ ret' = v /\ u_pc' = "done"

\* upload_multipart_needs_abort_on_error returned Err(e): upload_multipart
\* issues the abort call and keeps e
needs_abort_failed(e) ==
    /\ err' = e
    /\ u_pc' = "abort"
    /\ UNCHANGED ret

\* ---- the create_multipart_upload call resolves
create_ok ==
    /\ u_pc = "create"
    /\ calls' = Append(calls, Call("create", TRUE, 0, <<>>))
    /\ svc_in_progress' = TRUE
    /\ upload_id' = 1
    /\ part_number' = 1
    /\ u_pc' = "read"
    /\ UNCHANGED <<source, part_size, body, parts, err, ret, fail_at, ulog, ivars, svars, xvars>>

\* faulty variant: a response without upload id is not rejected
create_no_id_proceeds ==
    /\ u_pc = "create"
    /\ calls' = Append(calls, Call("create", TRUE, 0, <<>>))
    /\ svc_in_progress' = TRUE
    /\ part_number' = 1
    /\ u_pc' = "read"
    /\ UNCHANGED <<source, part_size, upload_id, body, parts, err, ret, fail_at, ulog, ivars, svars, xvars>>

\* the response carries no upload id: Err("Missing upload ID"), no abort
create_no_id ==
    /\ u_pc = "create"
    /\ calls' = Append(calls, Call("create", TRUE, 0, <<>>))
    /\ svc_in_progress' = TRUE
    /\ u_return([kind |-> "err", err |-> "Missing upload ID"])
    /\ UNCHANGED <<source, part_size, upload_id, part_number, body, parts, err, fail_at, ulog, ivars, svars, xvars>>

create_err ==
    /\ u_pc = "create"
    /\ calls' = Append(calls, Call("create", FALSE, 0, <<>>))
    /\ u_return([kind |-> "err", err |-> "create"])
    /\ UNCHANGED <<source, part_size, upload_id, part_number, body, parts, err,
                   svc_in_progress, fail_at, ulog, ivars, svars, xvars>>

\* ---- source.read(&mut body[..]) resolves
\* sizes a read into a buffer of part_size bytes can return: 0 only for an
\* empty buffer or at end of input
ReadSizes ==
    IF part_size = 0 \/ source = <<>> THEN {0}
    ELSE 1..(IF part_size <= Len(source) THEN part_size ELSE Len(source))

\* faulty variant: an empty read does not end the loop
read_breaks_never(size) == FALSE

\* faulty variant: a read that does not fill the buffer ends the loop
read_breaks_short(size) == size < part_size

\* size == 0 breaks the loop, and the complete request is issued with parts
read_breaks(size) == size = 0

read_ok(size) ==
    /\ u_pc = "read"
    /\ size \in ReadSizes
    /\ reads' = Append(reads, size)
    /\ IF read_breaks(size)
       THEN /\ u_pc' = "complete"
            /\ complete_req' = [sent |-> TRUE, parts |-> parts]
            /\ UNCHANGED <<source, body>>
       ELSE /\ body' = SubSeq(source, 1, size)
            /\ source' = SubSeq(source, size + 1, Len(source))
            /\ u_pc' = "upload_part"
            /\ UNCHANGED complete_req
    /\ UNCHANGED <<part_size, upload_id, part_number, parts, err, ret, calls,
                   svc_in_progress, fail_at, src0, svc_etags, ivars, svars, xvars>>

\* faulty variant: the read error is returned without the abort
read_err_no_abort ==
    /\ u_pc = "read"
    /\ fail_at' = Len(calls)
    /\ reads' = Append(reads, ReadErr)
    /\ u_return([kind |-> "err", err |-> "io"])
    /\ UNCHANGED <<source, part_size, upload_id, part_number, body, parts, err, calls,
                   svc_in_progress, src0, svc_etags, complete_req, ivars, svars, xvars>>

read_err ==
    /\ u_pc = "read"
    /\ fail_at' = Len(calls)
    /\ reads' = Append(reads, ReadErr)
    /\ needs_abort_failed("io")
    /\ UNCHANGED <<source, part_size, upload_id, part_number, body, parts, calls,
                   svc_in_progress, src0, svc_etags, complete_req, ivars, svars, xvars>>

\* ---- the upload_part call resolves
\* faulty variant: the new part is put in front
parts_push_front(ps, part) == <<part>> \o ps

\* parts.push(CompletedPart { .. })
parts_push(ps, part) == Append(ps, part)

\* faulty variant: the part number is not advanced
next_part_number_stuck(pn) == pn

\* the next value of the range 1..
next_part_number(pn) == pn + 1

upload_part_ok(e_tag) ==
    /\ u_pc = "upload_part"
    /\ calls' = Append(calls, Call("upload_part", TRUE, part_number, body))
    /\ svc_etags' = Append(svc_etags, [e_tag |-> e_tag, part_number |-> part_number])
    /\ parts' = parts_push(parts, [e_tag |-> e_tag, part_number |-> part_number])
    /\ part_number' = next_part_number(part_number)
    /\ body' = <<>>
    /\ u_pc' = "read"
    /\ UNCHANGED <<source, part_size, upload_id, err, ret, svc_in_progress, fail_at,
                   src0, reads, complete_req, ivars, svars, xvars>>

\* faulty variant: the upload-part error is returned without the abort
upload_part_err_no_abort ==
    /\ u_pc = "upload_part"
    /\ calls' = Append(calls, Call("upload_part", FALSE, part_number, body))
    /\ fail_at' = Len(calls')
    /\ u_return([kind |-> "err", err |-> "upload_part"])
    /\ UNCHANGED <<source, part_size, upload_id, part_number, body, parts, err,
                   svc_in_progress, ulog, ivars, svars, xvars>>

upload_part_err ==
    /\ u_pc = "upload_part"
    /\ calls' = Append(calls, Call("upload_part", FALSE, part_number, body))
    /\ fail_at' = Len(calls')
    /\ needs_abort_failed("upload_part")
    /\ UNCHANGED <<source, part_size, upload_id, part_number, body, parts,
                   svc_in_progress, ulog, ivars, svars, xvars>>

\* ---- the complete_multipart_upload call resolves
\* faulty variant: the abort is issued after a successful complete as well
complete_ok_then_abort ==
    /\ u_pc = "complete"
    /\ calls' = Append(calls, Call("complete", TRUE, 0, <<>>))
    /\ svc_in_progress' = FALSE
    /\ needs_abort_failed("complete")
    /\ UNCHANGED <<source, part_size, upload_id, part_number, body, parts, fail_at, ulog, ivars, svars, xvars>>

\* complete succeeded: its output is returned, no abort
complete_ok ==
    /\ u_pc = "complete"
    /\ calls' = Append(calls, Call("complete", TRUE, 0, <<>>))
    /\ svc_in_progress' = FALSE
    /\ u_return([kind |-> "ok", err |-> NoErr])
    /\ UNCHANGED <<source, part_size, upload_id, part_number, body, parts, err, fail_at, ulog, ivars, svars, xvars>>

\* faulty variant: the complete error is returned without the abort
complete_err_no_abort ==
    /\ u_pc = "complete"
    /\ calls' = Append(calls, Call("complete", FALSE, 0, <<>>))
    /\ fail_at' = Len(calls')
    /\ u_return([kind |-> "err", err |-> "complete"])
    /\ UNCHANGED <<source, part_size, upload_id, part_number, body, parts, err,
                   svc_in_progress, ulog, ivars, svars, xvars>>

complete_err ==
    /\ u_pc = "complete"
    /\ calls' = Append(calls, Call("complete", FALSE, 0, <<>>))
    /\ fail_at' = Len(calls')
    /\ needs_abort_failed("complete")
    /\ UNCHANGED <<source, part_size, upload_id, part_number, body, parts,
                   svc_in_progress, ulog, ivars, svars, xvars>>

\* ---- the abort_multipart_upload call resolves
abort_ok ==
    /\ u_pc = "abort"
    /\ calls' = Append(calls, Call("abort", TRUE, 0, <<>>))
    /\ svc_in_progress' = FALSE
    /\ u_return([kind |-> "err", err |-> err])
    /\ UNCHANGED <<source, part_size, upload_id, part_number, body, parts, err, fail_at, ulog, ivars, svars, xvars>>

\* faulty variant: the abort's failure is returned
abort_err_escalated ==
    /\ u_pc = "abort"
    /\ calls' = Append(calls, Call("abort", FALSE, 0, <<>>))
    /\ u_return([kind |-> "err", err |-> "abort"])
    /\ UNCHANGED <<source, part_size, upload_id, part_number, body, parts, err,
                   svc_in_progress, fail_at, ulog, ivars, svars, xvars>>

\* the failure is logged and ignored
abort_err ==
    /\ u_pc = "abort"
    /\ calls' = Append(calls, Call("abort", FALSE, 0, <<>>))
    /\ u_return([kind |-> "err", err |-> err])
    /\ UNCHANGED <<source, part_size, upload_id, part_number, body, parts, err,
                   svc_in_progress, fail_at, ulog, ivars, svars, xvars>>

\* ------------------------------------------------------------ ObjectStream
NoFut  == [st |-> "none", req |-> NoToken]
NoItem == [kind |-> "nopoll", val |-> 0]
Item(kind, val) == [kind |-> kind, val |-> val]

\* the outcome the service gives the k-th list call of a client: the one it
\* gave the k-th call of the other client when that came first
OutcomeOf(k, o) ==
    /\ IF k <= Len(outcomes) THEN o = outcomes[k] ELSE TRUE
    /\ outcomes' = IF k <= Len(outcomes) THEN outcomes ELSE Append(outcomes, o)

\* faulty variant: a fetch is started without looking at the in-flight slot
poll_starts_fetch_unguarded(st, it) == it.objects = <<>> /\ ~it.exhausted

\* poll_next sets fut: fut is none, no buffered object, not exhausted
poll_starts_fetch(st, it) == st = "none" /\ it.objects = <<>> /\ ~it.exhausted

\* faulty variant: the cursor of the response is not stored
stream_update_keeps_cursor(it, resp) ==
    [update_objects(it, resp) EXCEPT !.continuation_token = it.continuation_token]

\* Ok(resp) => self.iter().update_objects(resp)
stream_update(it, resp) == update_objects(it, resp)

\* faulty variant: a failed fetch ends the listing
stream_on_err_exhausts(it) == [it EXCEPT !.exhausted = TRUE]

\* Err(e) => return Ready(Some(Err(e))): the iterator is not touched
stream_on_err(it) == it

\* poll_next returns Ready(item)
poll_ready(item) ==
    /\ s_item' = item
    /\ s_items' = Append(s_items, item)

poll_next ==
    /\ Len(s_items) < MaxItems
    /\ IF poll_starts_fetch(fut.st, s_iter)
       THEN \* the future is created and polled: the list call is under way
            /\ fut' = [st |-> "pending", req |-> s_iter.continuation_token]
            /\ s_reqs' = Append(s_reqs, s_iter.continuation_token)
            /\ svc_inflight' = svc_inflight + 1
            /\ s_item' = Item("pending", 0)
            /\ UNCHANGED <<s_iter, s_items>>
       ELSE IF fut.st = "none"
       THEN /\ IF s_iter.objects # <<>>
               THEN /\ s_iter' = [s_iter EXCEPT !.objects = Tail(s_iter.objects)]
                    /\ poll_ready(Item("some", Head(s_iter.objects)))
               ELSE /\ poll_ready(Item("none", 0))
                    /\ UNCHANGED s_iter
            /\ UNCHANGED <<fut, s_reqs, svc_inflight>>
       ELSE IF fut.st = "pending"
       THEN /\ s_item' = Item("pending", 0)
            /\ UNCHANGED <<s_iter, fut, s_items, s_reqs, svc_inflight>>
       ELSE IF fut.st = "err"
       THEN /\ fut' = NoFut
            /\ s_iter' = stream_on_err(s_iter)
            /\ poll_ready(Item("err", 0))
            /\ UNCHANGED <<s_reqs, svc_inflight>>
       ELSE LET it == stream_update(s_iter, list_objects_v2(fut.req))
            IN /\ fut' = NoFut
               /\ IF it.objects # <<>>
                  THEN /\ s_iter' = [it EXCEPT !.objects = Tail(it.objects)]
                       /\ poll_ready(Item("some", Head(it.objects)))
                  ELSE /\ s_iter' = it
                       /\ poll_ready(Item("none", 0))
               /\ UNCHANGED <<s_reqs, svc_inflight>>
    /\ UNCHANGED <<t_iter, t_items, t_reqs, outcomes, ivars, uvars, xvars>>

\* the service answers the list call of the stream
stream_list_ok ==
    /\ fut.st = "pending"
    /\ OutcomeOf(Len(s_reqs), "ok")
    /\ fut' = [fut EXCEPT !.st = "ok"]
    /\ svc_inflight' = svc_inflight - 1
    /\ UNCHANGED <<s_iter, s_item, s_items, s_reqs, t_iter, t_items, t_reqs, ivars, uvars, xvars>>

stream_list_err ==
    /\ fut.st = "pending"
    /\ OutcomeOf(Len(s_reqs), "err")
    /\ fut' = [fut EXCEPT !.st = "err"]
    /\ svc_inflight' = svc_inflight - 1
    /\ UNCHANGED <<s_iter, s_item, s_items, s_reqs, t_iter, t_items, t_reqs, ivars, uvars, xvars>>

\* next_object on the twin ObjectIter, from the call to the return, with the
\* list call (when it makes one) answered with outcome o
twin_next_object(o) ==
    /\ Len(t_items) < MaxItems
    /\ IF t_iter.objects # <<>>
       THEN /\ t_iter' = [t_iter EXCEPT !.objects = Tail(t_iter.objects)]
            /\ t_items' = Append(t_items, Item("some", Head(t_iter.objects)))
            /\ o = "ok"
            /\ UNCHANGED <<t_reqs, outcomes>>
       ELSE IF t_iter.exhausted
       THEN /\ t_items' = Append(t_items, Item("none", 0))
            /\ o = "ok"
            /\ UNCHANGED <<t_iter, t_reqs, outcomes>>
       ELSE /\ t_reqs' = Append(t_reqs, t_iter.continuation_token)
            /\ OutcomeOf(Len(t_reqs) + 1, o)
            /\ IF o = "ok"
               THEN LET it == next_objects(t_iter)
                        r  == next_object_after_fetch(it)
                    IN /\ t_iter' = [it EXCEPT !.objects = r.objects]
                       /\ t_items' = Append(t_items, Item(r.kind, r.val))
               ELSE /\ t_items' = Append(t_items, Item("err", 0))
                    /\ UNCHANGED t_iter
    /\ UNCHANGED <<s_iter, fut, s_item, s_items, s_reqs, svc_inflight, ivars, uvars, xvars>>

\* ------------------------------------------- GetObjectIter, GetObjectStream
\* the (bucket, prefix) arguments an overlay is made with: iter_get_objects
\* on one bucket, iter_get_objects_with_prefix on another
Targets  == {<<"b1", NoPrefix>>, <<"b2", "p">>}
MaxKeys  == 1000
NoKey    == 0
NoEntry  == 0
NoListReq == [bucket |-> "", max_keys |-> 0, prefix |-> NoPrefix, continuation_token |-> NoToken]
NoGetReq  == [bucket |-> "", key |-> NoKey]
NoFut0 == [st |-> "none", req |-> NoListReq]
NoFut1 == [st |-> "none", req |-> NoGetReq]

\* ObjectIter::new with the fields of its request other than the token
ObjectIter_new_in(bucket, prefix) ==
    [objects |-> <<>>, continuation_token |-> NoToken, exhausted |-> FALSE,
     bucket |-> bucket, max_keys |-> MaxKeys, prefix |-> prefix]

\* self.request.clone()
request_of(it) ==
    [bucket |-> it.bucket, max_keys |-> it.max_keys, prefix |-> it.prefix,
     continuation_token |-> it.continuation_token]

\* object.key of listed entry e
key(e) == IF e \in nokey THEN NoKey ELSE e

\* faulty variant: an entry without key is passed on
missing_key_ignored(e) == FALSE

missing_key(e) == key(e) = NoKey

\* faulty variant: the bucket is left to Default::default()
GetObjectRequest_default_bucket(bucket, k) == [bucket |-> "", key |-> k]

GetObjectRequest(bucket, k) == [bucket |-> bucket, key |-> k]

\* the GetObjectOutput the service returns for a request: the object stored
\* under that key in that bucket
get_object(request) == [stored_in |-> request.bucket, stored_as |-> request.key]

GItem(kind, k, obj) == [kind |-> kind, key |-> k, obj |-> obj]
NoObj == get_object(NoGetReq)

g_return(item) == g_items' = Append(g_items, item)

\* ---- GetObjectIter::retrieve_next / next
\* retrieve(Some(e)) up to its await, or to its return when the key is missing
retrieve_some(e) ==
    IF missing_key(e)
    THEN /\ g_return(GItem("nokey", NoKey, NoObj))
         /\ g_pc' = "idle"
         /\ UNCHANGED <<g_request, g_gets, g_get_inflight>>
    ELSE /\ g_request' = GetObjectRequest(g_bucket, key(e))
         /\ g_gets' = Append(g_gets, g_request')
         /\ g_get_inflight' = g_get_inflight + 1
         /\ g_pc' = "get"
         /\ UNCHANGED g_items

\* retrieve(None)
retrieve_none ==
    /\ g_return(GItem("none", NoKey, NoObj))
    /\ g_pc' = "idle"
    /\ UNCHANGED <<g_request, g_gets, g_get_inflight>>

retrieve_next_call ==
    /\ g_mode = "iter" /\ g_pc = "idle" /\ Len(g_items) < MaxItems
    /\ IF g_inner.objects # <<>>
       THEN /\ g_inner' = [g_inner EXCEPT !.objects = Tail(g_inner.objects)]
            /\ retrieve_some(Head(g_inner.objects))
            /\ UNCHANGED <<g_lists, g_list_inflight>>
       ELSE IF g_inner.exhausted
       THEN /\ retrieve_none
            /\ UNCHANGED <<g_inner, g_lists, g_list_inflight>>
       ELSE /\ g_pc' = "list"
            /\ g_lists' = Append(g_lists, request_of(g_inner))
            /\ g_list_inflight' = g_list_inflight + 1
            /\ UNCHANGED <<g_inner, g_request, g_gets, g_get_inflight, g_items>>
    /\ UNCHANGED <<g_mode, g_bucket, g_key, fut0, fut1, nokey, ivars, uvars, svars, cvars, dvars, yvars>>

\* the list call awaited by next_object returns Ok
retrieve_list_ok ==
    /\ g_mode = "iter" /\ g_pc = "list"
    /\ g_list_inflight' = g_list_inflight - 1
    /\ LET req == g_lists[Len(g_lists)]
           it  == update_objects(g_inner, list_objects_v2(req.continuation_token))
       IN IF it.objects # <<>>
          THEN /\ g_inner' = [it EXCEPT !.objects = Tail(it.objects)]
               /\ retrieve_some(Head(it.objects))
          ELSE /\ g_inner' = it
               /\ retrieve_none
    /\ UNCHANGED <<g_mode, g_bucket, g_key, fut0, fut1, nokey, g_lists, ivars, uvars, svars, cvars, dvars, yvars>>

\* it returns Err: `?` in retrieve_next
retrieve_list_err ==
    /\ g_mode = "iter" /\ g_pc = "list"
    /\ g_list_inflight' = g_list_inflight - 1
    /\ g_return(GItem("list_err", NoKey, NoObj))
    /\ g_pc' = "idle"
    /\ UNCHANGED <<g_mode, g_inner, g_bucket, g_request, g_key, fut0, fut1, nokey, g_lists,
                   g_gets, g_get_inflight, ivars, uvars, svars, cvars, dvars, yvars>>

\* the get-object call awaited by retrieve returns Ok(o)
retrieve_get_ok ==
    /\ g_mode = "iter" /\ g_pc = "get"
    /\ g_get_inflight' = g_get_inflight - 1
    /\ g_return(GItem("pair", g_request.key, get_object(g_request)))
    /\ g_pc' = "idle"
    /\ UNCHANGED <<g_mode, g_inner, g_bucket, g_request, g_key, fut0, fut1, nokey, g_lists,
                   g_gets, g_list_inflight, ivars, uvars, svars, cvars, dvars, yvars>>

\* faulty variant: the entry whose get-object call failed is put back at the
\* head of the buffer
retrieve_get_err_requeues ==
    /\ g_mode = "iter" /\ g_pc = "get"
    /\ g_get_inflight' = g_get_inflight - 1
    /\ g_return(GItem("get_err", NoKey, NoObj))
    /\ g_pc' = "idle"
    /\ g_inner' = [g_inner EXCEPT !.objects = <<g_request.key>> \o g_inner.objects]
    /\ UNCHANGED <<g_mode, g_bucket, g_request, g_key, fut0, fut1, nokey, g_lists,
                   g_gets, g_list_inflight, ivars, uvars, svars, cvars, dvars, yvars>>

\* the get-object call awaited by retrieve returns Err
retrieve_get_err ==
    /\ g_mode = "iter" /\ g_pc = "get"
    /\ g_get_inflight' = g_get_inflight - 1
    /\ g_return(GItem("get_err", NoKey, NoObj))
    /\ g_pc' = "idle"
    /\ UNCHANGED <<g_mode, g_inner, g_bucket, g_request, g_key, fut0, fut1, nokey, g_lists,
                   g_gets, g_list_inflight, ivars, uvars, svars, cvars, dvars, yvars>>

\* ---- GetObjectStream::poll_next
\* faulty variant: a page fetch is started while an object is being retrieved
gs_starts_fetch_during_get(f0, f1, it) ==
    f0.st = "none" /\ it.objects = <<>> /\ ~it.exhausted

\* poll_next sets fut0: no future is held, no buffered object, not exhausted
gs_starts_fetch(f0, f1, it) ==
    f0.st = "none" /\ f1.st = "none" /\ it.objects = <<>> /\ ~it.exhausted

\* poll_next from next.take() = Some(e) on, the iterator being left as it1:
\* the key is missing and an error is returned, or fut1 is set and polled
gs_take_next(it1, e) ==
    /\ g_inner' = it1
    /\ IF missing_key(e)
       THEN /\ g_return(GItem("nokey", NoKey, NoObj))
            /\ UNCHANGED <<g_key, fut1, g_gets, g_get_inflight>>
       ELSE /\ g_key' = key(e)
            /\ fut1' = [st |-> "pending", req |-> GetObjectRequest(g_bucket, key(e))]
            /\ g_gets' = Append(g_gets, fut1'.req)
            /\ g_get_inflight' = g_get_inflight + 1
            /\ UNCHANGED g_items

\* a panic of poll_next: a failed assert!, unwrap() of an empty key slot, or
\* panic!("We shouldn't ever get here...")
gs_panic == g_return(GItem("panic", NoKey, NoObj))

Panicked == \E i \in 1..Len(g_items) : g_items[i].kind = "panic"

gs_poll_next ==
    /\ g_mode = "stream" /\ Len(g_items) < MaxItems /\ ~Panicked
    /\ IF gs_starts_fetch(fut0, fut1, g_inner)
       THEN \* fut0 is created; assert!(!(fut0.is_some() && fut1.is_some()));
            \* fut0 is polled: the list call is under way
            /\ fut0' = [st |-> "pending", req |-> request_of(g_inner)]
            /\ IF fut1.st # "none"
               THEN /\ gs_panic
                    /\ UNCHANGED <<g_lists, g_list_inflight>>
               ELSE /\ g_lists' = Append(g_lists, fut0'.req)
                    /\ g_list_inflight' = g_list_inflight + 1
                    /\ UNCHANGED g_items
            /\ UNCHANGED <<g_inner, g_key, fut1, g_gets, g_get_inflight>>
       ELSE IF fut0.st = "none" /\ fut1.st = "none"
       THEN /\ IF g_inner.objects # <<>>
               THEN gs_take_next([g_inner EXCEPT !.objects = Tail(g_inner.objects)],
                                 Head(g_inner.objects))
               ELSE /\ g_return(GItem("none", NoKey, NoObj))
                    /\ UNCHANGED <<g_inner, g_key, fut1, g_gets, g_get_inflight>>
            /\ UNCHANGED <<fut0, g_lists, g_list_inflight>>
       ELSE IF fut0.st # "none" /\ fut1.st # "none"
       THEN \* assert!(!(fut0.is_some() && fut1.is_some()))
            /\ gs_panic
            /\ UNCHANGED <<g_inner, g_key, fut0, fut1, g_lists, g_list_inflight,
                           g_gets, g_get_inflight>>
       ELSE IF fut0.st = "pending"
       THEN UNCHANGED <<g_inner, g_key, fut0, fut1, g_items, g_lists, g_list_inflight,
                        g_gets, g_get_inflight>>
       ELSE IF fut0.st = "err"
       THEN /\ fut0' = NoFut0
            /\ g_return(GItem("list_err", NoKey, NoObj))
            /\ UNCHANGED <<g_inner, g_key, fut1, g_lists, g_list_inflight, g_gets, g_get_inflight>>
       ELSE IF fut0.st = "ok"
       THEN LET it == update_objects(g_inner, list_objects_v2(fut0.req.continuation_token))
            IN /\ fut0' = NoFut0
               /\ IF it.objects # <<>>
                  THEN gs_take_next([it EXCEPT !.objects = Tail(it.objects)], Head(it.objects))
                  ELSE /\ g_inner' = it
                       /\ g_return(GItem("none", NoKey, NoObj))
                       /\ UNCHANGED <<g_key, fut1, g_gets, g_get_inflight>>
               /\ UNCHANGED <<g_lists, g_list_inflight>>
       ELSE IF fut1.st = "pending"
       THEN UNCHANGED <<g_inner, g_key, fut0, fut1, g_items, g_lists, g_list_inflight,
                        g_gets, g_get_inflight>>
       ELSE IF fut1.st = "ok"
       THEN \* key().take().unwrap()
            /\ fut1' = NoFut1
            /\ IF g_key = NoKey
               THEN gs_panic
               ELSE g_return(GItem("pair", g_key, get_object(fut1.req)))
            /\ g_key' = NoKey
            /\ UNCHANGED <<g_inner, fut0, g_lists, g_list_inflight, g_gets, g_get_inflight>>
       ELSE IF fut1.st = "err"
       THEN /\ fut1' = NoFut1
            /\ g_return(GItem("get_err", NoKey, NoObj))
            /\ UNCHANGED <<g_inner, g_key, fut0, g_lists, g_list_inflight, g_gets, g_get_inflight>>
       ELSE \* neither future is set after the four steps
            /\ gs_panic
            /\ UNCHANGED <<g_inner, g_key, fut0, fut1, g_lists, g_list_inflight,
                           g_gets, g_get_inflight>>
    /\ UNCHANGED <<g_mode, g_bucket, g_pc, g_request, nokey, ivars, uvars, svars, cvars, dvars, yvars>>

\* the service answers the list call held in fut0
gs_list_ok ==
    /\ fut0.st = "pending"
    /\ fut0' = [fut0 EXCEPT !.st = "ok"]
    /\ g_list_inflight' = g_list_inflight - 1
    /\ UNCHANGED <<g_mode, g_inner, g_bucket, g_pc, g_request, g_key, fut1, g_items, nokey,
                   g_lists, g_gets, g_get_inflight, ivars, uvars, svars, cvars, dvars, yvars>>

gs_list_err ==
    /\ fut0.st = "pending"
    /\ fut0' = [fut0 EXCEPT !.st = "err"]
    /\ g_list_inflight' = g_list_inflight - 1
    /\ UNCHANGED <<g_mode, g_inner, g_bucket, g_pc, g_request, g_key, fut1, g_items, nokey,
                   g_lists, g_gets, g_get_inflight, ivars, uvars, svars, cvars, dvars, yvars>>

\* the service answers the get-object call held in fut1
gs_get_ok ==
    /\ fut1.st = "pending"
    /\ fut1' = [fut1 EXCEPT !.st = "ok"]
    /\ g_get_inflight' = g_get_inflight - 1
    /\ UNCHANGED <<g_mode, g_inner, g_bucket, g_pc, g_request, g_key, fut0, g_items, nokey,
                   g_lists, g_gets, g_list_inflight, ivars, uvars, svars, cvars, dvars, yvars>>

gs_get_err ==
    /\ fut1.st = "pending"
    /\ fut1' = [fut1 EXCEPT !.st = "err"]
    /\ g_get_inflight' = g_get_inflight - 1
    /\ UNCHANGED <<g_mode, g_inner, g_bucket, g_pc, g_request, g_key, fut0, g_items, nokey,
                   g_lists, g_gets, g_list_inflight, ivars, uvars, svars, cvars, dvars, yvars>>

\* ------------------------------------------------------- ObjectIter: Clone
\* faulty variant: the copy does not get the buffered entries
clone_without_buffer(it) == [it EXCEPT !.objects = <<>>]

\* #[derive(Clone)]: request, objects and exhausted are cloned field by field
clone(it) == it

\* next_object from the call to the return, the list call (when it makes one)
\* answered with outcome o
NextObject(it, o) ==
    IF it.objects # <<>>
    THEN [it |-> [it EXCEPT !.objects = Tail(it.objects)], kind |-> "some", val |-> Head(it.objects)]
    ELSE IF it.exhausted THEN [it |-> it, kind |-> "none", val |-> 0]
    ELSE IF o = "err" THEN [it |-> it, kind |-> "err", val |-> 0]
    ELSE LET it2 == next_objects(it)
             r   == next_object_after_fetch(it2)
         IN [it |-> [it2 EXCEPT !.objects = r.objects], kind |-> r.kind, val |-> r.val]

\* nth(n) from the call to the return, every list call answered Ok
RECURSIVE Nth(_, _)
Nth(it, n) ==
    IF nth_continue(it, n) THEN Nth(next_objects(it), n - Len(it.objects))
    ELSE IF n < Len(it.objects)
    THEN [it |-> [it EXCEPT !.objects = SubSeq(it.objects, n + 2, Len(it.objects))],
          kind |-> "some", val |-> it.objects[n + 1]]
    ELSE [it |-> [it EXCEPT !.objects = <<>>], kind |-> "none", val |-> 0]

\* next_object makes a list call on it
Fetches(it) == it.objects = <<>> /\ ~it.exhausted

\* operations on the iterator before it is cloned
c_next_before(o) ==
    /\ ~c_cloned
    /\ (o = "err" => Fetches(c_a))
    /\ c_a' = NextObject(c_a, o).it
    /\ UNCHANGED <<c_b, c_cloned, c_rem0, c_ya, c_yb, c_na, c_nb, ivars, uvars, svars, gvars, dvars, yvars>>

\* the entries the service has still to hand to it, after its buffered ones
Remaining(it) ==
    it.objects \o (IF it.exhausted THEN <<>>
                   ELSE [i \in 1..(N - SumTo(sizes, it.continuation_token)) |->
                            SumTo(sizes, it.continuation_token) + i])

c_clone ==
    /\ ~c_cloned
    /\ c_b' = clone(c_a)
    /\ c_cloned' = TRUE
    /\ c_rem0' = Remaining(c_a)
    /\ UNCHANGED <<c_a, c_ya, c_yb, c_na, c_nb, ivars, uvars, svars, gvars, dvars, yvars>>

Yield(log, r) == IF r.kind = "some" THEN Append(log, r.val) ELSE log

c_next_a(o) ==
    /\ c_cloned
    /\ (o = "err" => Fetches(c_a))
    /\ LET r == NextObject(c_a, o)
       IN /\ c_a' = r.it
          /\ c_ya' = Yield(c_ya, r)
    /\ UNCHANGED <<c_b, c_cloned, c_rem0, c_yb, c_na, c_nb, ivars, uvars, svars, gvars, dvars, yvars>>

c_next_b(o) ==
    /\ c_cloned
    /\ (o = "err" => Fetches(c_b))
    /\ LET r == NextObject(c_b, o)
       IN /\ c_b' = r.it
          /\ c_yb' = Yield(c_yb, r)
    /\ UNCHANGED <<c_a, c_cloned, c_rem0, c_ya, c_na, c_nb, ivars, uvars, svars, gvars, dvars, yvars>>

c_nth_a(m) ==
    /\ c_cloned
    /\ c_a' = Nth(c_a, m).it
    /\ c_na' = TRUE
    /\ UNCHANGED <<c_b, c_cloned, c_rem0, c_ya, c_yb, c_nb, ivars, uvars, svars, gvars, dvars, yvars>>

c_nth_b(m) ==
    /\ c_cloned
    /\ c_b' = Nth(c_b, m).it
    /\ c_nb' = TRUE
    /\ UNCHANGED <<c_a, c_cloned, c_rem0, c_ya, c_yb, c_na, ivars, uvars, svars, gvars, dvars, yvars>>

\* -------------------------------------------------------- download_to_file
NoFile == [exists |-> FALSE, content |-> <<>>]
File(bytes) == [exists |-> TRUE, content |-> bytes]
NoDRet == [kind |-> "pending", err |-> "none"]

d_return(v) == /\ d_ret' = v /\ d_pc' = "done"

\* self.get_object(source).await returns Ok(resp), resp.body is Some
d_get_ok ==
    /\ d_pc = "get_object"
    /\ d_got' = "ok"
    /\ d_body' = d_object
    /\ d_pc' = "open"
    /\ UNCHANGED <<d_object, d_file, d_file0, d_ret, ivars, uvars, svars, gvars, cvars, yvars>>

\* it returns Ok(resp), resp.body is None: expect("no body") panics
d_get_no_body ==
    /\ d_pc = "get_object"
    /\ d_got' = "ok"
    /\ d_return([kind |-> "panic", err |-> "no body"])
    /\ UNCHANGED <<d_object, d_body, d_file, d_file0, ivars, uvars, svars, gvars, cvars, yvars>>

\* faulty variant: the target is opened before the get-object call
d_get_err_file_created ==
    /\ d_pc = "get_object"
    /\ d_got' = "err"
    /\ d_file' = IF d_file.exists THEN d_file ELSE File(<<>>)
    /\ d_return([kind |-> "err", err |-> "GetObjectError"])
    /\ UNCHANGED <<d_object, d_body, d_file0, ivars, uvars, svars, gvars, cvars, yvars>>

\* it returns Err: `?` returns it
d_get_err ==
    /\ d_pc = "get_object"
    /\ d_got' = "err"
    /\ d_return([kind |-> "err", err |-> "GetObjectError"])
    /\ UNCHANGED <<d_object, d_body, d_file, d_file0, ivars, uvars, svars, gvars, cvars, yvars>>

\* OpenOptions write, create_new: the file is created, it did not exist
d_open_ok ==
    /\ d_pc = "open"
    /\ ~d_file.exists
    /\ d_file' = File(<<>>)
    /\ d_pc' = "copy"
    /\ UNCHANGED <<d_object, d_got, d_body, d_file0, d_ret, ivars, uvars, svars, gvars, cvars, yvars>>

\* open fails (the file exists already, or another I/O error): `?` returns it
d_open_err ==
    /\ d_pc = "open"
    /\ d_return([kind |-> "err", err |-> "IoError"])
    /\ UNCHANGED <<d_object, d_got, d_body, d_file, d_file0, ivars, uvars, svars, gvars, cvars, yvars>>

\* io::copy writes the next k bytes of the body
d_copy_write(k) ==
    /\ d_pc = "copy"
    /\ k \in 1..Len(d_body)
    /\ d_file' = File(d_file.content \o SubSeq(d_body, 1, k))
    /\ d_body' = SubSeq(d_body, k + 1, Len(d_body))
    /\ UNCHANGED <<d_pc, d_object, d_got, d_file0, d_ret, ivars, uvars, svars, gvars, cvars, yvars>>

\* io::copy fails
d_copy_err ==
    /\ d_pc = "copy"
    /\ d_return([kind |-> "err", err |-> "IoError"])
    /\ UNCHANGED <<d_object, d_got, d_body, d_file, d_file0, ivars, uvars, svars, gvars, cvars, yvars>>

\* the body is at its end: Ok(resp)
d_copy_done ==
    /\ d_pc = "copy"
    /\ d_body = <<>>
    /\ d_return([kind |-> "ok", err |-> "none"])
    /\ UNCHANGED <<d_object, d_got, d_body, d_file, d_file0, ivars, uvars, svars, gvars, cvars, yvars>>

\* ----------------------------------------- GetObjectIter: nth, last, count
\* last_internal from the call to the return, every list call answered Ok,
\* objs being its local objects
RECURSIVE LastInternal(_, _)
LastInternal(it, objs) ==
    IF ~it.exhausted
    THEN LastInternal(next_objects(it), last_keep(objs, next_objects(it).objects))
    ELSE seq_last(objs)

\* ghost record of a call: the entry ObjectIter selects for it when every
\* list call is answered Ok, the get-object calls made before it, and the
\* position of the item it returns
GOp(op, arg, sel) ==
    [op |-> op, arg |-> arg, sel |-> [kind |-> sel.kind, val |-> sel.val],
     gets0 |-> Len(g_gets), at |-> Len(g_items) + 1]

\* self.retrieve(object) up to its await or its return
retrieve(r) == IF r.kind = "none" THEN retrieve_none ELSE retrieve_some(r.val)

\* self.next_objects() up to its await, infl list calls being unanswered
g_list_call(it, infl) ==
    /\ g_lists' = Append(g_lists, request_of(it))
    /\ g_list_inflight' = infl + 1

\* faulty variant: nth hands retrieve the head of the buffer
nth_selected_head(it, m) == it.objects[1]

\* self.objects.nth(n) after the loop of ObjectIter::nth
nth_selected(it, m) == it.objects[m + 1]

\* ---- GetObjectIter::nth: self.inner.nth(n).await?, then retrieve
g_nth_loop(it, m, infl) ==
    IF nth_continue(it, m)
    THEN /\ g_n' = m - Len(it.objects)
         /\ g_inner' = it
         /\ g_pc' = "nth"
         /\ g_list_call(it, infl)
         /\ UNCHANGED <<g_items, g_request, g_gets, g_get_inflight>>
    ELSE /\ g_n' = 0
         /\ g_list_inflight' = infl
         /\ UNCHANGED g_lists
         /\ IF m < Len(it.objects)
            THEN /\ g_inner' = [it EXCEPT !.objects = SubSeq(it.objects, m + 2, Len(it.objects))]
                 /\ retrieve_some(nth_selected(it, m))
            ELSE /\ g_inner' = [it EXCEPT !.objects = <<>>]
                 /\ retrieve_none

g_nth_call(m) ==
    /\ g_mode = "iter" /\ g_pc = "idle" /\ ~g_consumed
    /\ Len(g_items) < MaxItems /\ Len(g_ops) < MaxOps
    /\ g_ops' = Append(g_ops, GOp("nth", m, Nth(g_inner, m)))
    /\ g_nth_loop(g_inner, m, g_list_inflight)
    /\ UNCHANGED <<g_count, g_last, g_consumed, g_mode, g_bucket, g_key, fut0, fut1, nokey,
                   ivars, uvars, svars, cvars, dvars, vvars, fvars>>

g_nth_resume ==
    /\ g_mode = "iter" /\ g_pc = "nth"
    /\ g_nth_loop(next_objects(g_inner), g_n, g_list_inflight - 1)
    /\ UNCHANGED <<g_count, g_last, g_consumed, g_ops, g_mode, g_bucket, g_key, fut0, fut1,
                   nokey, ivars, uvars, svars, cvars, dvars, vvars, fvars>>

\* ---- GetObjectIter::last: self.inner.last_internal().await?, then retrieve
g_last_loop(it, objs, infl) ==
    IF ~it.exhausted
    THEN /\ g_last' = objs
         /\ g_pc' = "last"
         /\ g_list_call(it, infl)
         /\ UNCHANGED <<g_items, g_request, g_gets, g_get_inflight>>
    ELSE /\ g_last' = <<>>
         /\ g_list_inflight' = infl
         /\ UNCHANGED g_lists
         /\ retrieve(seq_last(objs))

g_last_call ==
    /\ g_mode = "iter" /\ g_pc = "idle" /\ ~g_consumed
    /\ Len(g_items) < MaxItems /\ Len(g_ops) < MaxOps
    /\ g_ops' = Append(g_ops, GOp("last", 0, LastInternal(g_inner, g_inner.objects)))
    /\ g_consumed' = TRUE
    /\ g_inner' = [g_inner EXCEPT !.objects = <<>>]
    /\ g_last_loop(g_inner, g_inner.objects, g_list_inflight)
    /\ UNCHANGED <<g_n, g_count, g_mode, g_bucket, g_key, fut0, fut1, nokey,
                   ivars, uvars, svars, cvars, dvars, vvars, fvars>>

g_last_resume ==
    /\ g_mode = "iter" /\ g_pc = "last"
    /\ LET it == next_objects(g_inner)
       IN /\ g_inner' = IF Len(it.objects) > 0 THEN [it EXCEPT !.objects = <<>>] ELSE it
          /\ g_last_loop(it, last_keep(g_last, it.objects), g_list_inflight - 1)
    /\ UNCHANGED <<g_n, g_count, g_consumed, g_ops, g_mode, g_bucket, g_key, fut0, fut1,
                   nokey, ivars, uvars, svars, cvars, dvars, vvars, fvars>>

\* ---- GetObjectIter::count: self.inner.count().await
g_count_loop(it, c, infl) ==
    IF ~it.exhausted
    THEN /\ g_count' = c
         /\ g_pc' = "count"
         /\ g_list_call(it, infl)
         /\ UNCHANGED g_items
    ELSE /\ g_count' = 0
         /\ g_pc' = "idle"
         /\ g_list_inflight' = infl
         /\ g_return(GItem("count", c, NoObj))
         /\ UNCHANGED g_lists

g_count_call ==
    /\ g_mode = "iter" /\ g_pc = "idle" /\ ~g_consumed
    /\ Len(g_items) < MaxItems /\ Len(g_ops) < MaxOps
    /\ g_ops' = Append(g_ops, GOp("count", 0, [kind |-> "none", val |-> 0]))
    /\ g_consumed' = TRUE
    /\ g_count_loop(g_inner, count_start(g_inner), g_list_inflight)
    /\ UNCHANGED <<g_n, g_last, g_inner, g_request, g_gets, g_get_inflight, g_mode, g_bucket,
                   g_key, fut0, fut1, nokey, ivars, uvars, svars, cvars, dvars, vvars, fvars>>

g_count_resume ==
    /\ g_mode = "iter" /\ g_pc = "count"
    /\ LET it == next_objects(g_inner)
       IN /\ g_inner' = it
          /\ g_count_loop(it, g_count + Len(it.objects), g_list_inflight - 1)
    /\ UNCHANGED <<g_n, g_last, g_consumed, g_ops, g_request, g_gets, g_get_inflight, g_mode,
                   g_bucket, g_key, fut0, fut1, nokey, ivars, uvars, svars, cvars, dvars,
                   vvars, fvars>>

\* ---- the list call awaited inside nth, last or count fails: `?` / map_err
g_ops_list_err ==
    /\ g_mode = "iter" /\ g_pc \in {"nth", "last", "count"}
    /\ g_list_inflight' = g_list_inflight - 1
    /\ g_return(GItem("list_err", NoKey, NoObj))
    /\ g_pc' = "idle"
    /\ UNCHANGED <<g_n, g_count, g_last, g_consumed, g_ops, g_mode, g_inner, g_bucket,
                   g_request, g_key, fut0, fut1, nokey, g_lists, g_gets, g_get_inflight,
                   ivars, uvars, svars, cvars, dvars, vvars, fvars>>

\* ------------------------------------------------- ObjectStream::into_iter
\* faulty variant: the buffered entries are not handed over
into_iter_drops_buffer(it, f) == [it EXCEPT !.objects = <<>>]

\* into_iter(self) -> ObjectIter { self.iter }: the future f held in fut is
\* dropped with the stream
into_iter(it, f) == it

v_into_iter ==
    /\ ~v_conv
    /\ v_conv' = TRUE
    /\ v_iter' = into_iter(s_iter, fut)
    /\ UNCHANGED <<v_items, ivars, uvars, svars, gvars, cvars, dvars, ovars, fvars>>

\* next_object on the ObjectIter returned by into_iter, from the call to the
\* return, the list call (when it makes one) answered with outcome o
v_next_object(o) ==
    /\ v_conv /\ Len(v_items) < MaxItems
    /\ (o = "err" => Fetches(v_iter))
    /\ v_iter' = NextObject(v_iter, o).it
    /\ v_items' = Append(v_items, Item(NextObject(v_iter, o).kind, NextObject(v_iter, o).val))
    /\ UNCHANGED <<v_conv, ivars, uvars, svars, gvars, cvars, dvars, ovars, fvars>>

\* ------------------------------------------------ upload_from_file, upload
f_return(v) == /\ f_ret' = v /\ f_pc' = "done"

\* ---- File::open(source).await?
f_open_ok ==
    /\ f_pc = "open"
    /\ f_file.exists
    /\ f_opened' = "ok"
    /\ f_rest' = f_file.content
    /\ f_pc' = "read"
    /\ UNCHANGED <<f_file, f_content, f_puts, f_object, f_ret,
                   ivars, uvars, svars, gvars, cvars, dvars, ovars, vvars>>

\* faulty variant: after the failed open an empty content is uploaded
f_open_err_uploads_empty ==
    /\ f_pc = "open"
    /\ f_opened' = "err"
    /\ f_puts' = Append(f_puts, <<>>)
    /\ f_pc' = "put"
    /\ UNCHANGED <<f_file, f_content, f_rest, f_object, f_ret,
                   ivars, uvars, svars, gvars, cvars, dvars, ovars, vvars>>

\* the open fails (no such file, or any other I/O error): `?` returns it
f_open_err ==
    /\ f_pc = "open"
    /\ f_opened' = "err"
    /\ f_return([kind |-> "err", err |-> "io"])
    /\ UNCHANGED <<f_file, f_content, f_rest, f_puts, f_object,
                   ivars, uvars, svars, gvars, cvars, dvars, ovars, vvars>>

\* ---- upload: source.read_to_end(&mut content).await?
\* read_to_end appends the k bytes of one read to content
f_read(k) ==
    /\ f_pc = "read"
    /\ k \in 1..Len(f_rest)
    /\ f_content' = f_content \o SubSeq(f_rest, 1, k)
    /\ f_rest' = SubSeq(f_rest, k + 1, Len(f_rest))
    /\ UNCHANGED <<f_pc, f_file, f_opened, f_puts, f_object, f_ret,
                   ivars, uvars, svars, gvars, cvars, dvars, ovars, vvars>>

\* a read fails: `?` returns the error
f_read_err ==
    /\ f_pc = "read"
    /\ f_return([kind |-> "err", err |-> "io"])
    /\ UNCHANGED <<f_file, f_opened, f_content, f_rest, f_puts, f_object,
                   ivars, uvars, svars, gvars, cvars, dvars, ovars, vvars>>

\* the read at the end of the file returns 0 bytes: target.body = content,
\* and put_object is called
f_read_end ==
    /\ f_pc = "read"
    /\ f_rest = <<>>
    /\ f_puts' = Append(f_puts, f_content)
    /\ f_pc' = "put"
    /\ UNCHANGED <<f_file, f_opened, f_content, f_rest, f_object, f_ret,
                   ivars, uvars, svars, gvars, cvars, dvars, ovars, vvars>>

\* ---- client.put_object(target).await.map_err(|e| e.into())
f_put_ok ==
    /\ f_pc = "put"
    /\ f_object' = File(f_puts[Len(f_puts)])
    /\ f_return([kind |-> "ok", err |-> "none"])
    /\ UNCHANGED <<f_file, f_opened, f_content, f_rest, f_puts,
                   ivars, uvars, svars, gvars, cvars, dvars, ovars, vvars>>

f_put_err ==
    /\ f_pc = "put"
    /\ f_return([kind |-> "err", err |-> "put"])
    /\ UNCHANGED <<f_file, f_opened, f_content, f_rest, f_puts, f_object,
                   ivars, uvars, svars, gvars, cvars, dvars, ovars, vvars>>

\* ------------------------------------------------------------------ specs
IterFresh ==
    /\ iter = ObjectIter_new
    /\ pc = "idle"
    /\ nth_n = 0 /\ count_acc = 0 /\ last_objects = <<>>
    /\ result = NoResult
    /\ delivered = 0 /\ yielded = <<>> /\ ncalls = 0 /\ only_next = TRUE
    /\ first = NoResult /\ k0 = 0
    /\ fresh_nth = NoResult
    /\ nlist = 0 /\ nfail = 0 /\ req_token = NoToken

UploadVars0 ==
    /\ upload_id = NoId /\ part_number = 0 /\ body = <<>> /\ parts = <<>>
    /\ err = NoErr /\ ret = NoRet /\ calls = <<>>
    /\ svc_in_progress = FALSE /\ fail_at = 0
    /\ reads = <<>> /\ svc_etags = <<>> /\ complete_req = NoReq

StreamFresh ==
    /\ s_iter = ObjectIter_new /\ fut = NoFut
    /\ s_item = NoItem /\ s_items = <<>> /\ s_reqs = <<>> /\ svc_inflight = 0
    /\ t_iter = ObjectIter_new /\ t_items = <<>> /\ t_reqs = <<>>
    /\ outcomes = <<>>

\* GetObjectIter::new / GetObjectStream::new on bucket b with prefix p
GetFresh(b, p) ==
    /\ g_inner = ObjectIter_new_in(b, p) /\ g_bucket = b
    /\ g_pc = "idle" /\ g_request = NoGetReq
    /\ g_key = NoKey /\ fut0 = NoFut0 /\ fut1 = NoFut1
    /\ g_items = <<>> /\ g_lists = <<>> /\ g_gets = <<>>
    /\ g_list_inflight = 0 /\ g_get_inflight = 0

\* no overlay is in use
GetVars0 == /\ g_mode = "iter" /\ nokey = {} /\ GetFresh("b1", NoPrefix)

\* no clone has been made
CloneVars0 ==
    /\ c_a = ObjectIter_new /\ c_b = ObjectIter_new /\ c_cloned = FALSE
    /\ c_rem0 = <<>> /\ c_ya = <<>> /\ c_yb = <<>> /\ c_na = FALSE /\ c_nb = FALSE

\* no download runs
DownloadVars0 ==
    /\ d_pc = "off" /\ d_object = <<>> /\ d_got = "none" /\ d_body = <<>>
    /\ d_file = NoFile /\ d_file0 = NoFile /\ d_ret = NoDRet

\* no nth, last or count was called on an overlay
OpsVars0 ==
    /\ g_n = 0 /\ g_count = 0 /\ g_last = <<>> /\ g_consumed = FALSE /\ g_ops = <<>>

\* no ObjectStream was converted
IntoVars0 == v_conv = FALSE /\ v_iter = ObjectIter_new /\ v_items = <<>>

\* no upload_from_file runs
FileVars0 ==
    /\ f_pc = "off" /\ f_file = NoFile /\ f_opened = "none" /\ f_content = <<>>
    /\ f_rest = <<>> /\ f_puts = <<>> /\ f_object = NoFile /\ f_ret = NoDRet

OtherVars0 == /\ GetVars0 /\ CloneVars0 /\ DownloadVars0
              /\ OpsVars0 /\ IntoVars0 /\ FileVars0

\* listing: a fresh ObjectIter over a listing paged in any way; no upload runs
Init ==
    /\ sizes \in Pagings
    /\ IterFresh
    /\ StreamFresh
    /\ u_pc = "off" /\ source = <<>> /\ src0 = <<>> /\ part_size = 0
    /\ UploadVars0
    /\ OtherVars0

Next ==
    \/ new
    \/ next_object_call
    \/ next_object_resume
    \/ \E m \in 0..(MaxEntries + 1) : nth_call(m)
    \/ nth_resume
    \/ count_call
    \/ count_resume
    \/ last_call
    \/ last_resume
    \/ list_error

Spec == Init /\ [][Next]_vars

\* upload: upload_multipart has been called on a source of S bytes and awaits
\* the create call
InitUpload ==
    /\ sizes = <<0>>
    /\ IterFresh
    /\ u_pc = "create"
    /\ \E S \in 0..MaxSource : src0 = [i \in 1..S |-> i]
    /\ source = src0
    /\ part_size \in 0..MaxPartSize
    /\ UploadVars0
    /\ StreamFresh
    /\ OtherVars0

NextUpload ==
    \/ create_ok
    \/ create_no_id
    \/ create_err
    \/ \E size \in 0..MaxPartSize : read_ok(size)
    \/ read_err
    \/ \E e_tag \in 1..MaxETag : upload_part_ok(e_tag)
    \/ upload_part_err
    \/ complete_ok
    \/ complete_err
    \/ abort_ok
    \/ abort_err

SpecUpload == InitUpload /\ [][NextUpload]_vars

\* stream: a fresh ObjectStream and a fresh ObjectIter over the same listing,
\* served by the same service
InitStream == Init

NextStream ==
    \/ poll_next
    \/ stream_list_ok
    \/ stream_list_err
    \/ \E o \in {"ok", "err"} : twin_next_object(o)

SpecStream == InitStream /\ [][NextStream]_vars

\* overlay: a fresh GetObjectIter or GetObjectStream on some bucket and prefix,
\* over a listing paged in any way, some of whose entries come without a key
InitGet ==
    /\ sizes \in Pagings
    /\ IterFresh
    /\ StreamFresh
    /\ u_pc = "off" /\ source = <<>> /\ src0 = <<>> /\ part_size = 0
    /\ UploadVars0
    /\ g_mode \in {"iter", "stream"}
    /\ nokey \in SUBSET (1..N)
    /\ \E t \in Targets : GetFresh(t[1], t[2])
    /\ CloneVars0 /\ DownloadVars0
    /\ OpsVars0 /\ IntoVars0 /\ FileVars0

NextGet ==
    \/ retrieve_next_call
    \/ retrieve_list_ok
    \/ retrieve_list_err
    \/ retrieve_get_ok
    \/ retrieve_get_err
    \/ gs_poll_next
    \/ gs_list_ok
    \/ gs_list_err
    \/ gs_get_ok
    \/ gs_get_err

SpecGet == InitGet /\ [][NextGet]_vars

\* clone: a fresh ObjectIter over a listing paged in any way, used, cloned, and
\* both copies used
InitClone == Init

NextClone ==
    \/ \E o \in {"ok", "err"} : c_next_before(o)
    \/ c_clone
    \/ \E o \in {"ok", "err"} : c_next_a(o)
    \/ \E o \in {"ok", "err"} : c_next_b(o)
    \/ \E m \in 0..MaxEntries : c_nth_a(m)
    \/ \E m \in 0..MaxEntries : c_nth_b(m)

SpecClone == InitClone /\ [][NextClone]_vars

\* BodyBytes: the byte strings of length at most MaxBody over two byte values
BodyBytes == UNION { [1..k -> 1..2] : k \in 0..MaxBody }

\* download: download_to_file has been called for an object of any content,
\* the target path holding a file or not, and awaits the get-object call
InitDownload ==
    /\ sizes = <<0>>
    /\ IterFresh
    /\ StreamFresh
    /\ u_pc = "off" /\ source = <<>> /\ src0 = <<>> /\ part_size = 0
    /\ UploadVars0
    /\ GetVars0 /\ CloneVars0
    /\ OpsVars0 /\ IntoVars0 /\ FileVars0
    /\ d_pc = "get_object"
    /\ d_object \in BodyBytes
    /\ d_file0 \in {NoFile, File(<<>>), File(<<1>>)}
    /\ d_file = d_file0
    /\ d_got = "none" /\ d_body = <<>> /\ d_ret = NoDRet

NextDownload ==
    \/ d_get_ok
    \/ d_get_no_body
    \/ d_get_err
    \/ d_open_ok
    \/ d_open_err
    \/ \E k \in 1..MaxBody : d_copy_write(k)
    \/ d_copy_err
    \/ d_copy_done

SpecDownload == InitDownload /\ [][NextDownload]_vars

\* ================================================================ claims
Listing == [i \in 1..N |-> i]

Returned(op) == result.op = op /\ result.kind \notin {"pending", "err"}

EmptyPageWithCursor == \E j \in 1..(Len(sizes) - 1) : sizes[j] = 0

\* C1: on an ObjectIter used only through next_object, the entries yielded so
\* far are the first entries of the listing in order, and when next_object
\* returns none all N entries have been yielded.
C1_NextObjectYieldsListing ==
    only_next =>
        /\ \A i \in 1..Len(yielded) : yielded[i] = i
        /\ (Returned("next") /\ result.kind = "none") => yielded = Listing

\* C2: next_object returns none only when the buffer is empty and the service
\* has returned a page without a next cursor (the iterator is exhausted).
C2_NoneOnlyWhenExhausted ==
    (Returned("next") /\ result.kind = "none") =>
        (iter.objects = <<>> /\ iter.exhausted)

\* C3: the (i+1)-th of i+1 next_object calls on a fresh ObjectIter returns what
\* nth(i) returned on a fresh ObjectIter over the same listing and paging.
C3_NthEqualsRepeatedNext ==
    (/\ only_next
     /\ Returned("next")
     /\ fresh_nth.op = "nth"
     /\ ncalls = fresh_nth.arg + 1) =>
        (result.kind = fresh_nth.kind /\ result.val = fresh_nth.val)

\* When no empty page carries a cursor, next_object alone yields the listing
\* and then none, and agrees with nth on fresh iterators.
NextObjectYieldsListing_NonEmptyPages ==
    (only_next /\ ~EmptyPageWithCursor) =>
        /\ \A i \in 1..Len(yielded) : yielded[i] = i
        /\ (Returned("next") /\ result.kind = "none") => yielded = Listing

NthEqualsRepeatedNext_NonEmptyPages ==
    (/\ ~EmptyPageWithCursor
     /\ only_next
     /\ Returned("next")
     /\ fresh_nth.op = "nth"
     /\ ncalls = fresh_nth.arg + 1) =>
        (result.kind = fresh_nth.kind /\ result.val = fresh_nth.val)

Min(a, b) == IF a <= b THEN a ELSE b

\* C4: nth(n) called with k entries consumed returns the entry at position k+n
\* (0-based) when k+n < N and none otherwise, and leaves min(k+n+1, N) consumed.
C4_NthPosition ==
    Returned("nth") =>
        /\ IF k0 + result.arg < N
           THEN result.kind = "some" /\ result.val = k0 + result.arg + 1
           ELSE result.kind = "none"
        /\ Consumed = Min(k0 + result.arg + 1, N)

\* a later nth (k > 0) that skipped entries and landed on the last entry of a
\* page that has a next cursor
C4_Witness ==
    /\ Returned("nth") /\ result.kind = "some"
    /\ k0 > 0 /\ result.arg > 0
    /\ iter.objects = <<>> /\ ~iter.exhausted

\* C5: count returns the number of entries not yet consumed: N on a fresh
\* iterator, N-k-1 after a successful nth(k), 0 after an nth that returned none.
C5_CountRemaining ==
    Returned("count") =>
        /\ result.val = N - k0
        /\ ncalls = 1 => result.val = N
        /\ (ncalls = 2 /\ first.op = "nth" /\ first.kind = "some") =>
               result.val = N - first.arg - 1
        /\ (ncalls = 2 /\ first.op = "nth" /\ first.kind = "none") =>
               result.val = 0

\* count after a successful nth, over a paging with an empty page that
\* carries a cursor, with entries left to count
C5_Witness ==
    /\ Returned("count") /\ result.val > 0
    /\ ncalls = 2 /\ first.op = "nth" /\ first.kind = "some"
    /\ EmptyPageWithCursor

\* C6: last returns the final entry of the listing when entries remain and
\* none when none remain, also when the trailing pages are empty.
C6_LastEntry ==
    Returned("last") =>
        IF k0 < N THEN result.kind = "some" /\ result.val = N
        ELSE result.kind = "none"

\* last returned an entry although the terminal page came back empty
C6_Witness ==
    /\ Returned("last") /\ result.kind = "some"
    /\ Len(sizes) >= 2 /\ sizes[Len(sizes)] = 0

\* the inner ObjectIter of a GetObjectIter whose calls so far have fetched
\* the pages up to page j and taken d entries of page j from the buffer
InnerAfter(j, d) ==
    LET it0 == [ObjectIter_new_in("b2", "p") EXCEPT !.continuation_token = j - 1]
        it  == update_objects(it0, list_objects_v2(j - 1))
    IN [it EXCEPT !.objects = SubSeq(it.objects, d + 1, Len(it.objects))]

\* overlay operations: a GetObjectIter, fresh or used before, at most one
\* listed entry without key, on which nth is called some times and then nth,
\* last or count
InitGetOps ==
    /\ sizes \in Pagings
    /\ IterFresh
    /\ StreamFresh
    /\ u_pc = "off" /\ source = <<>> /\ src0 = <<>> /\ part_size = 0
    /\ UploadVars0
    /\ g_mode = "iter"
    /\ nokey \in {{}} \cup {{e} : e \in 1..N}
    /\ \/ g_inner = ObjectIter_new_in("b2", "p")
       \/ \E j \in 1..Len(sizes) : \E d \in 0..sizes[j] : g_inner = InnerAfter(j, d)
    /\ g_bucket = "b2"
    /\ g_pc = "idle" /\ g_request = NoGetReq
    /\ g_key = NoKey /\ fut0 = NoFut0 /\ fut1 = NoFut1
    /\ g_items = <<>> /\ g_lists = <<>> /\ g_gets = <<>>
    /\ g_list_inflight = 0 /\ g_get_inflight = 0
    /\ CloneVars0 /\ DownloadVars0
    /\ OpsVars0 /\ IntoVars0 /\ FileVars0

NextGetOps ==
    \/ retrieve_get_ok
    \/ retrieve_get_err
    \/ \E m \in 0..MaxEntries : g_nth_call(m)
    \/ g_nth_resume
    \/ g_last_call
    \/ g_last_resume
    \/ g_count_call
    \/ g_count_resume
    \/ g_ops_list_err

SpecGetOps == InitGetOps /\ [][NextGetOps]_vars

\* conversion: an ObjectStream is polled, then converted with into_iter, and
\* next_object is called on the ObjectIter obtained
InitInto == Init

NextInto ==
    \/ (~v_conv /\ poll_next)
    \/ (~v_conv /\ stream_list_ok)
    \/ (~v_conv /\ stream_list_err)
    \/ v_into_iter
    \/ \E o \in {"ok", "err"} : v_next_object(o)

SpecInto == InitInto /\ [][NextInto]_vars

\* upload from file: upload_from_file has been called for a source path that
\* holds a file of any content or no file, no object being stored under the
\* target key, and awaits File::open
InitFile ==
    /\ sizes = <<0>>
    /\ IterFresh
    /\ StreamFresh
    /\ u_pc = "off" /\ source = <<>> /\ src0 = <<>> /\ part_size = 0
    /\ UploadVars0
    /\ GetVars0 /\ CloneVars0 /\ DownloadVars0
    /\ OpsVars0 /\ IntoVars0
    /\ f_pc = "open"
    /\ f_file \in {NoFile} \cup {File(b) : b \in BodyBytes}
    /\ f_opened = "none" /\ f_content = <<>> /\ f_rest = <<>>
    /\ f_puts = <<>> /\ f_object = NoFile /\ f_ret = NoDRet

NextFile ==
    \/ f_open_ok
    \/ f_open_err
    \/ \E k \in 1..MaxBody : f_read(k)
    \/ f_read_err
    \/ f_read_end
    \/ f_put_ok
    \/ f_put_err

SpecFile == InitFile /\ [][NextFile]_vars

\* the iterator operations with every awaited list call eventually answered,
\* with a page or with an error
Fairness == WF_vars(nth_resume \/ count_resume \/ last_resume \/ list_error)

\* one ObjectIter from its construction until it is dropped, with up to
\* MaxLoops calls of nth, count and last
NextLive ==
    \/ \E m \in 0..(MaxEntries + 1) : (ncalls < MaxLoops /\ nth_call(m))
    \/ nth_resume
    \/ (ncalls < MaxLoops /\ count_call)
    \/ count_resume
    \/ (ncalls < MaxLoops /\ last_call)
    \/ last_resume
    \/ list_error

SpecLive == Init /\ [][NextLive]_vars /\ Fairness

\* ---------------------------------------------------------- upload claims
NumCalls(c) == Cardinality({i \in 1..Len(calls) : calls[i].call = c})

Failed(c) == \E i \in 1..Len(calls) : calls[i].call = c /\ ~calls[i].ok

UploadReturned == u_pc = "done" /\ ret.kind # "pending"

\* the step whose failure made upload_multipart_needs_abort_on_error fail, read
\* off the calls the service received: a failed upload-part call, a failed
\* complete call, or else a read of the source
Trigger ==
    IF Failed("upload_part") THEN "upload_part"
    ELSE IF Failed("complete") THEN "complete"
    ELSE "io"

\* C7: when a read or an upload-part call failed after the upload id was
\* obtained, upload_multipart has returned with exactly one abort call made,
\* made after the failure as the only call after it, and no complete call.
C7_AbortAfterReadOrPartFailure ==
    (UploadReturned /\ upload_id # NoId /\ ret.kind = "err"
        /\ Trigger \in {"io", "upload_part"}) =>
        /\ NumCalls("abort") = 1
        /\ NumCalls("complete") = 0
        /\ SubSeq(calls, fail_at + 1, Len(calls)) \in
               {<<Call("abort", TRUE, 0, <<>>)>>, <<Call("abort", FALSE, 0, <<>>)>>}

\* the source failed on its very first read: create, then abort, nothing else
C7_Witness ==
    /\ UploadReturned /\ ret.err = "io"
    /\ Len(calls) = 2 /\ calls[1].call = "create" /\ calls[2].call = "abort"

\* C8: an error returned after the upload id was obtained is the error of the
\* step that failed (read, upload-part or complete), never the abort's.
C8_TriggeringErrorReturned ==
    (UploadReturned /\ upload_id # NoId /\ ret.kind = "err") =>
        ret.err = Trigger

\* an upload-part failure whose compensating abort failed too
C8_Witness ==
    /\ UploadReturned /\ ret.err = "upload_part"
    /\ Failed("abort")

\* C9 as stated: after an error return of an upload whose create call
\* succeeded and gave the id, the service has no upload in progress for it.
C9_NoUploadInProgress_Original ==
    (UploadReturned /\ ret.kind = "err" /\ upload_id # NoId) =>
        ~svc_in_progress

\* C9 amended: after an error return of an upload whose id was obtained, the
\* last call made is the abort for it, and when that abort succeeded the
\* service has no upload in progress.
C9_NoUploadInProgressIfAborted ==
    (UploadReturned /\ ret.kind = "err" /\ upload_id # NoId) =>
        /\ calls[Len(calls)].call = "abort"
        /\ calls[Len(calls)].ok => ~svc_in_progress

\* a part was uploaded, a later step failed, the abort succeeded
C9_Witness ==
    /\ UploadReturned /\ ret.kind = "err" /\ upload_id # NoId
    /\ NumCalls("upload_part") > 0
    /\ calls[Len(calls)] = Call("abort", TRUE, 0, <<>>)
    /\ ~svc_in_progress

\* C10 as stated: an upload whose id was obtained has received exactly one
\* terminating call, complete or abort, when upload_multipart has returned.
C10_OneTerminatingCall_Original ==
    (UploadReturned /\ upload_id # NoId) =>
        NumCalls("complete") + NumCalls("abort") = 1

\* C10 amended: when upload_multipart has returned for an upload whose id was
\* obtained, it made at most one complete and at most one abort call and at
\* least one of them; it made the abort exactly when it returns an error, and
\* both only when the complete call failed, the abort following it.
C10_TerminatingCalls ==
    (UploadReturned /\ upload_id # NoId) =>
        /\ NumCalls("complete") <= 1 /\ NumCalls("abort") <= 1
        /\ NumCalls("complete") + NumCalls("abort") >= 1
        /\ NumCalls("abort") = 1 <=> ret.kind = "err"
        /\ ret.kind = "ok" => calls[Len(calls)] = Call("complete", TRUE, 0, <<>>)
        /\ (NumCalls("complete") = 1 /\ NumCalls("abort") = 1) =>
               /\ calls[Len(calls) - 1] = Call("complete", FALSE, 0, <<>>)
               /\ calls[Len(calls)].call = "abort"

\* the complete call failed after a part was uploaded and the abort followed
C10_Witness ==
    /\ UploadReturned /\ ret.err = "complete"
    /\ NumCalls("upload_part") > 0
    /\ NumCalls("complete") = 1 /\ NumCalls("abort") = 1

\* ------------------------------------------------- upload claims, C11..C17
PartCalls == SelectSeq(calls, LAMBDA c : c.call = "upload_part")

RECURSIVE ConcatBodies(_)
ConcatBodies(cs) == IF cs = <<>> THEN <<>> ELSE Head(cs).body \o ConcatBodies(Tail(cs))

RECURSIVE SumReads(_)
SumReads(i) == IF i = 0 THEN 0
               ELSE (IF reads[i] = ReadErr THEN 0 ELSE reads[i]) + SumReads(i - 1)

CeilDiv(a, b) == (a + b - 1) \div b

\* every read so far returned min(part_size, bytes left): it filled the
\* buffer or delivered the end of the input
FillOrEnd ==
    \A i \in 1..Len(reads) : reads[i] = Min(part_size, Len(src0) - SumReads(i - 1))

\* read i returned fewer bytes than asked although input remained after it
ShortNonTerminal(i) ==
    reads[i] > 0 /\ reads[i] < part_size /\ SumReads(i) < Len(src0)

\* C11: with part_size >= 1 and reads that fill the buffer or end the input,
\* when the read loop has ended there were exactly ceil(S/part_size)
\* upload-part calls, numbered 1.. in order, and their bodies concatenated
\* are the source bytes.
C11_PartsCoverSource ==
    (part_size >= 1 /\ complete_req.sent /\ FillOrEnd) =>
        /\ Len(PartCalls) = CeilDiv(Len(src0), part_size)
        /\ \A k \in 1..Len(PartCalls) : PartCalls[k].part_number = k /\ PartCalls[k].ok
        /\ ConcatBodies(PartCalls) = src0

\* a source of one byte more than part_size, uploaded with success
C11_Witness ==
    /\ complete_req.sent /\ FillOrEnd
    /\ part_size >= 2 /\ Len(src0) = part_size + 1
    /\ ret.kind = "ok"

\* C12: the k-th upload-part call carries part number k, and the part list of
\* the complete request is the list of (part number, ETag) the service
\* returned, in upload order, which is the order of the part numbers.
C12_PartNumbersAndETags ==
    /\ \A k \in 1..Len(PartCalls) : PartCalls[k].part_number = k
    /\ complete_req.sent =>
           /\ complete_req.parts = svc_etags
           /\ \A k \in 1..Len(complete_req.parts) : complete_req.parts[k].part_number = k

\* a completed upload of at least two parts with different ETags
C12_Witness ==
    /\ complete_req.sent /\ Len(complete_req.parts) >= 2
    /\ complete_req.parts[1].e_tag # complete_req.parts[2].e_tag

UState ==
    IF upload_id = NoId THEN "None"
    ELSE IF \E i \in 1..Len(calls) : calls[i].call = "complete" /\ calls[i].ok THEN "Completed"
    ELSE IF NumCalls("abort") > 0 THEN "Aborted"
    ELSE IF \E i \in 1..Len(reads) : reads[i] > 0 THEN "InProgress"
    ELSE "Created"

UTerminal == UState \in {"Completed", "Aborted"}

\* C14 as stated: Created -> InProgress -> {Completed, Aborted}, the terminal
\* states reached only from InProgress, and no call once terminal.
C14_Lifecycle_Original ==
    [][/\ UState' # UState =>
              <<UState, UState'>> \in {<<"None", "Created">>, <<"Created", "InProgress">>,
                                       <<"InProgress", "Completed">>, <<"InProgress", "Aborted">>}
       /\ UTerminal => calls' = calls]_vars

\* C14 amended: as stated, except that Completed and Aborted are also reached
\* directly from Created (a source without bytes; a failure before the first
\* successful part read).
C14_Lifecycle ==
    [][/\ UState' # UState =>
              <<UState, UState'>> \in {<<"None", "Created">>, <<"Created", "InProgress">>,
                                       <<"InProgress", "Completed">>, <<"InProgress", "Aborted">>,
                                       <<"Created", "Completed">>, <<"Created", "Aborted">>}
       /\ UTerminal => calls' = calls]_vars

\* the upload was aborted although no part was ever read
C14_Witness ==
    /\ UState = "Aborted"
    /\ reads = <<ReadErr>>

\* C15: when the first read returns 0 bytes there is no upload-part call and
\* the complete request is issued with an empty part list.
C15_EmptySource ==
    (reads # <<>> /\ reads[1] = 0) =>
        /\ NumCalls("upload_part") = 0
        /\ u_pc \in {"complete", "abort", "done"}
        /\ complete_req = [sent |-> TRUE, parts |-> <<>>]

\* an empty source uploaded with a positive part_size
C15_Witness ==
    /\ reads = <<0>> /\ src0 = <<>> /\ part_size > 0
    /\ ret.kind = "ok"

\* C16: when the create call failed or its response had no upload id,
\* upload_multipart has returned an error ("Missing upload ID" in the second
\* case), the source was not read and no other call was made.
C16_CreateFailure ==
    (Len(calls) >= 1 /\ (~calls[1].ok \/ upload_id = NoId)) =>
        /\ UploadReturned
        /\ ret = [kind |-> "err",
                  err |-> IF calls[1].ok THEN "Missing upload ID" ELSE "create"]
        /\ Len(calls) = 1
        /\ reads = <<>> /\ source = src0

\* the response had no upload id, for a source with bytes
C16_Witness ==
    /\ UploadReturned /\ ret.err = "Missing upload ID"
    /\ src0 # <<>>

C20_EmptyListing ==
    sizes = <<0>> =>
        /\ Returned("next") => result.kind = "none"
        /\ Returned("nth") => result.kind = "none"
        /\ Returned("last") => result.kind = "none"
        /\ Returned("count") => result.val = 0
        /\ (Returned("next") \/ Returned("nth") \/ Returned("last") \/ Returned("count")) =>
               /\ iter.exhausted
               /\ nlist - nfail = 1
        /\ iter.exhausted => ~Awaiting

\* a third operation returned on the empty listing, still after one list call
C20_Witness ==
    /\ sizes = <<0>>
    /\ Returned("count") /\ ncalls = 3
    /\ nlist = 1

\* ------------------------------------------------------- stream, C18..C19
\* C18: the service never has more than one list call of an ObjectStream to
\* answer, and has one exactly while fut holds an unresolved future; a list
\* call is started only with fut empty, the buffer empty and the iterator not
\* exhausted; a poll that finds a buffered entry with fut empty returns that
\* entry and starts no list call.
C18_OneFetchInFlight ==
    /\ [](svc_inflight <= 1 /\ (svc_inflight = 1 <=> fut.st = "pending"))
    /\ [][/\ s_reqs' # s_reqs =>
               (fut.st = "none" /\ s_iter.objects = <<>> /\ ~s_iter.exhausted)
          /\ (fut.st = "none" /\ s_iter.objects # <<>> /\ s_items' # s_items) =>
               /\ s_items' = Append(s_items, Item("some", Head(s_iter.objects)))
               /\ s_reqs' = s_reqs /\ fut' = fut /\ svc_inflight' = svc_inflight]_vars

\* the second list call is in flight after two entries were returned
C18_Witness ==
    /\ fut.st = "pending" /\ svc_inflight = 1
    /\ Len(s_reqs) = 2 /\ Len(s_items) >= 2

\* C19: served alike, the items an ObjectStream has returned and the results
\* of the next_object calls of an ObjectIter agree position by position, and
\* so do the continuation tokens of their list calls; after equally many
\* items, with no list call of the stream under way, both hold the same
\* buffer, cursor and exhausted flag.
C19_StreamEqualsIter ==
    /\ \A i \in 1..Min(Len(s_items), Len(t_items)) : s_items[i] = t_items[i]
    /\ \A i \in 1..Min(Len(s_reqs), Len(t_reqs)) : s_reqs[i] = t_reqs[i]
    /\ (Len(s_items) = Len(t_items) /\ fut.st = "none") =>
           /\ s_iter = t_iter
           /\ s_reqs = t_reqs

\* both returned the same three or more items, an error and an entry among
\* them, over two or more list calls
C19_Witness ==
    /\ Len(s_items) >= 3 /\ s_items = t_items
    /\ \E i \in 1..Len(s_items) : s_items[i].kind = "err"
    /\ \E i \in 1..Len(s_items) : s_items[i].kind = "some"
    /\ Len(s_reqs) >= 2 /\ s_reqs = t_reqs

\* ----------------------------------------------------- ObjectIter, C21
\* the iterator can still return an entry or make a list call
Active(it) == ~(it.exhausted /\ it.objects = <<>>)

\* list responses this ObjectIter has received
Responses == nlist - nfail - (IF Awaiting THEN 1 ELSE 0)

\* on one ObjectIter: once exhausted is set it stays set and no list call is
\* made; with exhausted set and the buffer empty, next_object and nth return
\* none
ExhaustedIsTerminal ==
    [][/\ (iter.exhausted /\ ncalls' >= ncalls) =>
              (iter'.exhausted /\ nlist' = nlist)
       /\ (iter.exhausted /\ iter.objects = <<>> /\ ncalls' = ncalls + 1
             /\ result'.op \in {"next", "nth"}) =>
              result'.kind = "none"]_vars

\* C21 as stated: exhausted is terminal, and while exhausted is not set the
\* iterator is active exactly when its buffer is non-empty or a cursor is
\* present.
C21_ExhaustedTerminal_Original ==
    /\ ExhaustedIsTerminal
    /\ [](~iter.exhausted =>
            (Active(iter) <=>
               (iter.objects # <<>> \/ iter.continuation_token # NoToken)))

\* C21: exhausted is terminal, and while exhausted is not set the iterator is
\* active, with a non-empty buffer, or a cursor, or no list response received
\* yet (a fresh iterator has neither entries nor a cursor).
C21_ExhaustedTerminal ==
    /\ ExhaustedIsTerminal
    /\ [](~iter.exhausted =>
            /\ Active(iter)
            /\ (iter.objects # <<>> \/ iter.continuation_token # NoToken
                  \/ Responses = 0))

\* next_object returned none on a drained, exhausted iterator that had
\* yielded entries before
C21_Witness ==
    /\ iter.exhausted /\ iter.objects = <<>>
    /\ result.op = "next" /\ result.kind = "none"
    /\ ncalls >= 3 /\ yielded # <<>>

\* ------------------------------------------------- cursor order, C25
\* the next-cursor of the latest successful response among the first k list
\* calls whose requests are reqs
RECURSIVE LatestCursor(_, _)
LatestCursor(reqs, k) ==
    IF k = 0 THEN NoToken
    ELSE IF outcomes[k] = "ok" THEN list_objects_v2(reqs[k]).next_continuation_token
    ELSE LatestCursor(reqs, k - 1)

\* C25: the first list call of the ObjectStream and of the ObjectIter carries
\* no token, each later one carries the next-cursor of the latest successful
\* response to the same instance, and the stream issues a list call only when
\* no earlier one is unanswered or unread.
C25_PagesInCursorOrder ==
    /\ [](/\ \A i \in 1..Len(s_reqs) : s_reqs[i] = LatestCursor(s_reqs, i - 1)
          /\ \A i \in 1..Len(t_reqs) : t_reqs[i] = LatestCursor(t_reqs, i - 1))
    /\ [][s_reqs' # s_reqs => (svc_inflight = 0 /\ fut.st = "none")]_vars

\* the stream made a third list call, after a failed one, with a cursor; the
\* iterator made a second one with the cursor of the first page
C25_Witness ==
    /\ Len(s_reqs) >= 3 /\ s_reqs[Len(s_reqs)] # NoToken
    /\ \E k \in 1..(Len(s_reqs) - 1) : outcomes[k] = "err"
    /\ Len(t_reqs) >= 2 /\ t_reqs[2] = 1

\* ------------------------------------------------- list failures, C27
\* C27: a failed list call makes the operation awaiting it return an error
\* at once, with no further list call; for next_object and nth the buffer, the
\* cursor and the exhausted flag are as before the failed call, and calling
\* the same operation again issues a list call with the same token.
C27_ListFailurePropagates ==
    [][/\ nfail' > nfail =>
              /\ nfail' = nfail + 1 /\ nlist' = nlist
              /\ Awaiting /\ ~Awaiting'
              /\ result' = [op |-> pc, arg |-> result.arg, kind |-> "err", val |-> 0]
              /\ pc \in {"next", "nth"} => iter' = iter
       /\ (/\ result.kind = "err" /\ result.op \in {"next", "nth"} /\ pc = "idle"
           /\ result' # result
           /\ result'.op = result.op /\ result'.arg = result.arg) =>
              /\ pc' = result.op
              /\ nlist' = nlist + 1
              /\ req_token' = req_token
              /\ iter' = iter]_vars

\* nth failed on its second list call and, called again with the same
\* argument, awaits a list call for the same page
C27_Witness ==
    /\ ncalls = 1 /\ first.op = "nth" /\ first.kind = "err"
    /\ pc = "nth" /\ result.arg = first.arg
    /\ req_token # NoToken /\ nfail = 1

\* ------------------------------------------------- upload order, C26
\* reads of the source that returned bytes
GoodReads == Cardinality({i \in 1..Len(reads) : reads[i] > 0})

\* C26: in one upload_multipart call the upload-part calls carry the part
\* numbers 1, 2, .. in order, each follows a read that returned bytes, and
\* the next read starts only when the upload-part call before it has
\* returned Ok; the service receives the calls one at a time, each the one
\* the function is awaiting.
C26_ReadsAndPartsAlternate ==
    /\ [](/\ \A k \in 1..Len(PartCalls) :
                /\ PartCalls[k].part_number = k
                /\ (k < Len(PartCalls) => PartCalls[k].ok)
          /\ GoodReads = Len(PartCalls) + (IF u_pc = "upload_part" THEN 1 ELSE 0)
          /\ u_pc = "read" =>
                /\ part_number = Len(PartCalls) + 1
                /\ \A k \in 1..Len(PartCalls) : PartCalls[k].ok)
    /\ [][/\ (u_pc' = "read" /\ u_pc # "read") =>
                \/ u_pc = "create" /\ part_number' = 1
                \/ /\ u_pc = "upload_part"
                   /\ calls' = Append(calls, Call("upload_part", TRUE, part_number, body))
                   /\ part_number' = part_number + 1
          /\ (u_pc' = "upload_part" /\ u_pc # "upload_part") =>
                /\ u_pc = "read" /\ calls' = calls
                /\ Len(reads') = Len(reads) + 1 /\ reads'[Len(reads')] > 0
          /\ calls' # calls =>
                /\ Len(calls') = Len(calls) + 1
                /\ SubSeq(calls', 1, Len(calls)) = calls
                /\ calls'[Len(calls')].call = u_pc]_vars

\* two parts have been uploaded and the third read is under way
C26_Witness ==
    /\ u_pc = "read" /\ part_number = 3
    /\ Len(PartCalls) = 2 /\ Len(reads) = 2

\* ------------------------------------------------- overlay, C22..C24, C29
\* the items the overlay returned for listed entries (pairs, and errors of
\* retrieve), in order: the i-th of them is for listed entry i
EntryItems == SelectSeq(g_items, LAMBDA x : x.kind \in {"pair", "nokey", "get_err"})

\* the entries among 1..m that come with a key, in order
Keyed(m) == SelectSeq([i \in 1..m |-> i], LAMBDA i : i \notin nokey)

\* entries the overlay has taken from the listing: those it returned an item
\* for and the one whose object it is retrieving
Taken == Len(EntryItems) + (IF g_pc = "get" \/ fut1.st # "none" THEN 1 ELSE 0)

OverlayIdle ==
    /\ g_list_inflight = 0 /\ g_get_inflight = 0
    /\ fut0.st = "none" /\ fut1.st = "none" /\ g_pc = "idle"

\* C22: the i-th item returned for an entry belongs to listed entry i, and
\* when it is a pair it holds that entry's key and the object stored under
\* that key in the iterator's bucket; the get-object calls are those for the
\* keyed entries taken so far, in order, in that bucket; on an exhausted
\* listing with an empty buffer the overlay returns none and makes no
\* get-object call.
C22_OverlayPairs ==
    /\ [](/\ Taken <= N
          /\ \A i \in 1..Len(EntryItems) :
                EntryItems[i].kind = "pair" =>
                    /\ i \notin nokey
                    /\ EntryItems[i].key = i
                    /\ EntryItems[i].obj = [stored_in |-> g_bucket, stored_as |-> i]
          /\ g_gets = [j \in 1..Len(Keyed(Taken)) |->
                          [bucket |-> g_bucket, key |-> Keyed(Taken)[j]]])
    /\ [][(g_inner.exhausted /\ g_inner.objects = <<>> /\ OverlayIdle
             /\ g_items' # g_items) =>
              /\ g_items' = Append(g_items, GItem("none", NoKey, NoObj))
              /\ g_gets' = g_gets /\ g_lists' = g_lists]_vars

\* the stream returned the pairs of two entries and then none
C22_Witness ==
    /\ g_mode = "stream" /\ g_inner.exhausted
    /\ Len(g_items) = 3 /\ Len(g_lists) >= 2
    /\ g_items[1].kind = "pair" /\ g_items[2].kind = "pair" /\ g_items[2].key = 2
    /\ g_items[3].kind = "none"

\* C23: the item returned for a listed entry without key is the error
\* "response is missing key" (and only for such entries), no get-object
\* request is made for it, and the overlay goes on with the next entry.
C23_MissingKey ==
    /\ [](/\ \A i \in 1..Len(EntryItems) :
                EntryItems[i].kind = "nokey" <=> i \in nokey
          /\ \A j \in 1..Len(g_gets) : g_gets[j].key # NoKey /\ g_gets[j].key \notin nokey)
    /\ [][(g_items' # g_items /\ g_items'[Len(g_items')].kind = "nokey") =>
              (g_gets' = g_gets /\ g_get_inflight' = g_get_inflight)]_vars

\* an entry without key gave the error and the entry after it gave its pair
C23_Witness ==
    /\ Len(g_items) >= 2
    /\ g_items[1].kind = "nokey" /\ g_items[2].kind = "pair" /\ g_items[2].key = 2

\* C24: the service never has more than one get-object call of a
\* GetObjectStream to answer, never a list call and a get-object call
\* together, and fut0 and fut1 are never both set; a list call is started only
\* with an empty buffer and no future held.
C24_OneCallInFlight ==
    /\ [](/\ g_get_inflight <= 1
          /\ g_list_inflight + g_get_inflight <= 1
          /\ ~(fut0.st # "none" /\ fut1.st # "none")
          /\ g_list_inflight = 1 <=> (fut0.st = "pending" \/ g_pc = "list")
          /\ g_get_inflight = 1 <=> (fut1.st = "pending" \/ g_pc = "get"))
    /\ [][g_lists' # g_lists =>
              (g_inner.objects = <<>> /\ fut0.st = "none" /\ fut1.st = "none"
                 /\ g_get_inflight = 0)]_vars

\* an object is being retrieved while the buffer is empty and a further page
\* is due
C24_Witness ==
    /\ g_mode = "stream" /\ fut1.st = "pending" /\ g_get_inflight = 1
    /\ g_inner.objects = <<>> /\ ~g_inner.exhausted
    /\ Len(g_items) >= 1

\* C29: all list requests of one ObjectIter carry the bucket and the prefix
\* it was made with and max_keys = 1000; they differ in the continuation
\* token only.
C29_RequestTemplate ==
    \A i \in 1..Len(g_lists) :
        /\ g_lists[i].bucket = g_bucket
        /\ g_lists[i].max_keys = MaxKeys
        /\ g_lists[i].prefix = g_lists[1].prefix
        /\ [g_lists[i] EXCEPT !.continuation_token = NoToken] =
               [g_lists[1] EXCEPT !.continuation_token = NoToken]

\* a prefixed listing has sent its second list request, with a cursor
C29_Witness ==
    /\ Len(g_lists) >= 2
    /\ g_lists[1].prefix = "p" /\ g_lists[1].continuation_token = NoToken
    /\ g_lists[2].continuation_token # NoToken

\* ------------------------------------------------------------ clone, C28
\* C28: clone() gives a copy with the same buffer, cursor and exhausted flag
\* and leaves the original as it was; afterwards an operation on one copy
\* leaves the other copy unchanged; and on each copy used through next_object
\* alone, the entries returned so far followed by the entries still to come
\* are the entries that were still to come when the clone was made.
C28_CloneIndependent ==
    /\ [][/\ (~c_cloned /\ c_cloned') => (c_b' = c_a /\ c_a' = c_a)
          /\ c_cloned => /\ (c_a' # c_a \/ c_ya' # c_ya \/ c_na' # c_na) =>
                               (c_b' = c_b /\ c_yb' = c_yb)
                         /\ (c_b' # c_b \/ c_yb' # c_yb \/ c_nb' # c_nb) =>
                               (c_a' = c_a /\ c_ya' = c_ya)]_vars
    /\ [](c_cloned =>
            /\ ~c_na => c_ya \o Remaining(c_a) = c_rem0
            /\ ~c_nb => c_yb \o Remaining(c_b) = c_rem0)

\* cloned with one entry buffered and a page to come; the original has
\* returned all of the rest and is exhausted, the clone only the first entry
C28_Witness ==
    /\ c_cloned /\ ~c_na /\ ~c_nb
    /\ Len(c_rem0) >= 2 /\ c_rem0[1] # 1
    /\ c_ya = c_rem0 /\ c_a.exhausted
    /\ Len(c_yb) = 1 /\ ~c_b.exhausted

\* --------------------------------------------------------- download, C30
\* C30: the target path is as it was when download_to_file was called until
\* the get-object call has returned Ok; when that call fails, its error is
\* returned and the path is still as it was, so no file has been created.
C30_NoFileWithoutObject ==
    /\ [](/\ d_got # "ok" => d_file = d_file0
          /\ (d_pc = "done" /\ d_got = "err") =>
                /\ d_ret = [kind |-> "err", err |-> "GetObjectError"]
                /\ d_file = d_file0
                /\ ~d_file0.exists => ~d_file.exists)
    /\ [][(~d_file.exists /\ d_file'.exists) => (d_got = "ok" /\ d_pc = "open")]_vars

\* the get-object call failed, nothing was at the target path before
C30_Witness ==
    /\ d_pc = "done" /\ d_got = "err" /\ d_ret.kind = "err"
    /\ ~d_file0.exists

\* ------------------------------------------------------- claims C31..C40
\* the read loop has ended without a read failure
ReadLoopEnded == reads # <<>> /\ reads[Len(reads)] = 0

\* C32: every upload-part call carries between 1 and part_size bytes; a read
\* of 0 bytes is followed by complete and by no upload-part call, so a source
\* whose size is a multiple of part_size, read in full buffers, is uploaded
\* in exactly S/part_size parts.
C32_PartBodySizes ==
    /\ \A i \in 1..Len(PartCalls) :
           Len(PartCalls[i].body) >= 1 /\ Len(PartCalls[i].body) <= part_size
    /\ NumCalls("upload_part") <= GoodReads
    /\ (/\ part_size >= 1 /\ Len(src0) % part_size = 0
        /\ FillOrEnd /\ ReadLoopEnded) =>
           /\ NumCalls("upload_part") = Len(src0) \div part_size
           /\ \A i \in 1..Len(PartCalls) : Len(PartCalls[i].body) = part_size

\* a source of two full parts, uploaded and completed: the third read
\* returned 0 bytes and no third part was uploaded
C32_Witness ==
    /\ part_size = 1 /\ Len(src0) = 2 /\ reads = <<1, 1, 0>>
    /\ NumCalls("upload_part") = 2
    /\ ret.kind = "ok"

\* C39: with part_size = 0 there is never an upload-part call, every read
\* that succeeds returns 0 bytes, and the read loop ends at the first of them
\* with a complete request carrying an empty part list, whatever the source
\* holds (the source is left unread).
C39_ZeroPartSize ==
    part_size = 0 =>
        /\ NumCalls("upload_part") = 0
        /\ parts = <<>>
        /\ source = src0
        /\ (reads # <<>> /\ reads[1] # ReadErr) =>
               /\ reads = <<0>>
               /\ complete_req = [sent |-> TRUE, parts |-> <<>>]
               /\ u_pc \in {"complete", "abort", "done"}

\* a source with bytes, part_size = 0: the upload completed successfully
\* with no part
C39_Witness ==
    /\ part_size = 0 /\ Len(src0) >= 2
    /\ ret.kind = "ok"
    /\ NumCalls("complete") = 1
    /\ complete_req = [sent |-> TRUE, parts |-> <<>>]

\* the i-th item returned for an entry is an error of retrieve
RetrieveError(i) == EntryItems[i].kind \in {"nokey", "get_err"}

\* C37: an entry for which retrieve_next returned an error (missing key or
\* failed get-object call) is consumed: it is no longer in the buffer, no
\* get-object call is made for it again (the keys of the get-object calls
\* strictly increase), and the item returned next for an entry is that of the
\* following entry.
C37_ErrorConsumesEntry ==
    g_mode = "iter" =>
        /\ \A i \in 1..Len(EntryItems) :
               RetrieveError(i) =>
                   /\ \A j \in 1..Len(g_inner.objects) : g_inner.objects[j] > i
                   /\ (i + 1 <= Len(EntryItems) /\ EntryItems[i + 1].kind = "pair") =>
                          EntryItems[i + 1].key = i + 1
                   /\ (g_pc = "get" /\ i = Len(EntryItems)) => g_request.key = i + 1
        /\ \A a, b \in 1..Len(g_gets) : a < b => g_gets[a].key < g_gets[b].key

\* the get-object call for entry 1 failed, the one for entry 2 has a missing
\* key, and the third call returned the pair of entry 3
C37_Witness ==
    /\ g_mode = "iter" /\ Len(g_items) = 3
    /\ g_items[1].kind = "get_err" /\ g_items[2].kind = "nokey"
    /\ g_items[3].kind = "pair" /\ g_items[3].key = 3

\* the last item the ObjectStream returned is end-of-stream
StreamEnded == s_items # <<>> /\ s_items[Len(s_items)].kind = "none"

\* the last item the GetObjectStream returned is end-of-stream
GetStreamEnded ==
    g_mode = "stream" /\ g_items # <<>> /\ g_items[Len(g_items)].kind = "none"

\* C34: once an ObjectStream has returned end-of-stream, a later poll returns
\* end-of-stream again and starts no list call.
C34_EndOfStreamSticky ==
    [][StreamEnded =>
          /\ s_reqs' = s_reqs /\ fut' = fut
          /\ s_items' # s_items => s_items' = Append(s_items, Item("none", 0))]_vars

\* the same for a GetObjectStream, which makes no get-object call either
C34_GetStreamEndSticky ==
    [][GetStreamEnded =>
          /\ g_lists' = g_lists /\ g_gets' = g_gets
          /\ g_items' # g_items => g_items' = Append(g_items, GItem("none", NoKey, NoObj))]_vars

\* when no empty page carries a cursor, end-of-stream is returned by an
\* exhausted stream only and is final
EndOfStreamSticky_NonEmptyPages ==
    /\ []((StreamEnded /\ ~EmptyPageWithCursor) =>
             (s_iter.exhausted /\ s_iter.objects = <<>> /\ fut.st = "none"))
    /\ [][(StreamEnded /\ ~EmptyPageWithCursor) =>
             /\ s_reqs' = s_reqs /\ fut' = fut
             /\ s_items' # s_items => s_items' = Append(s_items, Item("none", 0))]_vars

\* the entries the ObjectStream has returned, in order
StreamEntries == SelectSeq(s_items, LAMBDA x : x.kind = "some")

\* the last item the ObjectStream returned is an error
StreamErred == s_items # <<>> /\ s_items[Len(s_items)].kind = "err"

\* C35: a poll that finds the fetch resolved with an error returns the error,
\* empties fut and leaves buffer, cursor and exhausted flag as they were; the
\* stream is then not terminated: its buffer is empty, it is not exhausted,
\* and the list call the next poll starts carries the cursor of the failed
\* call; the entries returned are 1, 2, .. without gap or repetition.
C35_StreamErrorRetry ==
    /\ [][(fut.st = "err" /\ s_items' # s_items) =>
              /\ s_items' = Append(s_items, Item("err", 0))
              /\ fut' = NoFut
              /\ s_iter' = s_iter
              /\ s_reqs' = s_reqs]_vars
    /\ []((StreamErred /\ fut.st = "none") =>
              /\ s_iter.objects = <<>> /\ ~s_iter.exhausted
              /\ s_iter.continuation_token = s_reqs[Len(s_reqs)])
    /\ [][(StreamErred /\ s_reqs' # s_reqs) =>
              s_reqs' = Append(s_reqs, s_reqs[Len(s_reqs)])]_vars
    /\ [](\A i \in 1..Len(StreamEntries) : StreamEntries[i].val = i)

\* the second list call failed, it was made again with the cursor of the
\* first page, and the entry after the first page was returned
C35_Witness ==
    /\ Len(s_reqs) = 3 /\ s_reqs[2] # NoToken /\ s_reqs[3] = s_reqs[2]
    /\ Len(s_items) >= 3
    /\ s_items[Len(s_items) - 1].kind = "err"
    /\ s_items[Len(s_items)].kind = "some"
    /\ s_items[Len(s_items)].val = Len(StreamEntries)

\* C36: GetObjectStream::poll_next never panics: no poll has ended in a
\* panic, fut0 and fut1 are never both set (first assertion), fut0 is empty
\* whenever fut1 is set (second assertion), a poll that gets past both
\* finds fut1 set, and the key slot holds the key of the request whenever a
\* get-object call is held in fut1, so it is set when the call resolves Ok.
C36_PollNeverPanics ==
    /\ [](~Panicked)
    /\ [](~(fut0.st # "none" /\ fut1.st # "none"))
    /\ [](fut1.st # "none" => (g_key # NoKey /\ g_key = fut1.req.key))
    /\ [][(g_mode = "stream" /\ g_items' # g_items) =>
              g_items'[Len(g_items')].kind \in {"pair", "none", "list_err", "get_err", "nokey"}]_vars

\* the stream went through a failed list call, a failed get-object call (which
\* leaves its key in the slot) and a successful one
C36_Witness ==
    /\ g_mode = "stream" /\ Len(g_items) >= 3
    /\ \E i \in 1..Len(g_items) : g_items[i].kind = "list_err"
    /\ \E i \in 1..(Len(g_items) - 1) :
           g_items[i].kind = "get_err" /\ g_items[i + 1].kind = "pair"
    /\ g_key = NoKey /\ fut1.st = "none"

\* the step returns the item of the nth, last or count call in progress
OpReturns ==
    /\ g_ops # <<>>
    /\ Len(g_items') = Len(g_items) + 1
    /\ g_ops[Len(g_ops)].at = Len(g_items')

\* C33: count makes no get-object call; nth(n) and last return the pair of
\* the entry ObjectIter::nth(n) / ObjectIter::last select (none when they
\* select none, the missing-key error when that entry has no key) and make
\* one get-object call, for the key of that entry, and none when the selection
\* is none or has no key or a list call failed; no other entry is fetched.
C33_OverlaySelection ==
    /\ [](\A i \in 1..Len(g_ops) :
             /\ (IF i < Len(g_ops) THEN g_ops[i + 1].gets0 ELSE Len(g_gets)) <= g_ops[i].gets0 + 1
             /\ g_ops[i].op = "count" => Len(g_gets) = g_ops[i].gets0
             /\ \A j \in (g_ops[i].gets0 + 1)..Len(g_gets) :
                    (i = Len(g_ops) \/ j <= g_ops[i + 1].gets0) =>
                        /\ g_ops[i].sel.kind = "some"
                        /\ g_gets[j] = [bucket |-> g_bucket, key |-> g_ops[i].sel.val])
    /\ [][OpReturns =>
            LET o    == g_ops[Len(g_ops)]
                item == g_items'[Len(g_items')]
                made == Len(g_gets') - o.gets0
            IN /\ o.op = "count" => (item.kind \in {"count", "list_err"} /\ made = 0)
               /\ o.op \in {"nth", "last"} =>
                    /\ item.kind \in {"pair", "none", "nokey", "get_err", "list_err"}
                    /\ item.kind = "pair" =>
                         /\ o.sel.kind = "some" /\ item.key = o.sel.val
                         /\ item.obj = [stored_in |-> g_bucket, stored_as |-> o.sel.val]
                         /\ made = 1
                    /\ item.kind = "get_err" => (o.sel.kind = "some" /\ made = 1)
                    /\ item.kind = "none" => (o.sel.kind = "none" /\ made = 0)
                    /\ item.kind = "nokey" =>
                         (o.sel.kind = "some" /\ o.sel.val \in nokey /\ made = 0)
                    /\ item.kind = "list_err" => made = 0]_vars

\* nth(1) on a used iterator went over two or more list calls, skipped an
\* entry and returned the pair of the entry after it with one get-object call
C33_Witness ==
    /\ Len(g_ops) = 1 /\ g_ops[1].op = "nth" /\ g_ops[1].arg = 1
    /\ Len(g_lists) >= 2
    /\ Len(g_items) = 1 /\ g_items[1].kind = "pair" /\ g_items[1].key = 3
    /\ Len(g_gets) = 1 /\ g_gets[1].key = 3

\* last returned the pair of the last entry after two or more list calls
C33_WitnessLast ==
    /\ Len(g_ops) = 1 /\ g_ops[1].op = "last"
    /\ Len(g_lists) >= 2 /\ N >= 2
    /\ Len(g_items) = 1 /\ g_items[1].kind = "pair" /\ g_items[1].key = N
    /\ Len(g_gets) = 1

\* count returned after two or more list calls and no get-object call
C33_WitnessCount ==
    /\ Len(g_ops) = 1 /\ g_ops[1].op = "count"
    /\ Len(g_lists) >= 2
    /\ Len(g_items) = 1 /\ g_items[1].kind = "count" /\ g_items[1].key >= 2
    /\ g_gets = <<>>

\* the entries next_object has returned on the converted iterator, in order
IntoEntries == SelectSeq(v_items, LAMBDA x : x.kind = "some")

EntryValues(s) == [i \in 1..Len(s) |-> s[i].val]

\* C38: after into_iter, at any point between two polls (a page fetch pending
\* or resolved in fut included), the entries the stream returned, then those
\* next_object returned on the iterator, then those the iterator has still to
\* yield are the listing 1..N in order: no entry is lost or repeated.
C38_IntoIterKeepsEntries ==
    v_conv =>
        /\ EntryValues(StreamEntries) \o EntryValues(IntoEntries) \o Remaining(v_iter) = Listing
        /\ (v_iter.exhausted /\ v_iter.objects = <<>>) =>
               EntryValues(StreamEntries) \o EntryValues(IntoEntries) = Listing

\* the stream was converted while its second list call was pending, after it
\* had returned an entry, and the iterator yielded the rest of the listing
C38_Witness ==
    /\ v_conv /\ fut.st = "pending" /\ Len(s_reqs) = 2
    /\ Len(StreamEntries) >= 1 /\ Len(IntoEntries) >= 1
    /\ Len(StreamEntries) + Len(IntoEntries) = N
    /\ v_iter.exhausted /\ v_iter.objects = <<>>

\* the same with the answer to the list call held unread in fut
C38_WitnessResolved ==
    /\ v_conv /\ fut.st = "ok" /\ Len(s_reqs) = 2
    /\ Len(StreamEntries) >= 1 /\ Len(IntoEntries) >= 1
    /\ Len(StreamEntries) + Len(IntoEntries) = N
    /\ v_iter.exhausted /\ v_iter.objects = <<>>

\* C31: when File::open failed, upload_from_file has returned the I/O error,
\* the service has received no put-object request and holds no object under
\* the target key; the open of a path without file does not succeed.
C31_NoPutWithoutSource ==
    /\ f_opened = "err" =>
           /\ f_pc = "done"
           /\ f_ret = [kind |-> "err", err |-> "io"]
           /\ f_puts = <<>>
           /\ f_object = NoFile
    /\ ~f_file.exists => (f_opened # "ok" /\ f_puts = <<>> /\ f_object = NoFile)
    /\ f_puts # <<>> => (f_opened = "ok" /\ f_puts = <<f_file.content>>)

\* the source path holds no file and upload_from_file has returned the error
C31_Witness ==
    /\ ~f_file.exists /\ f_opened = "err"
    /\ f_pc = "done" /\ f_ret.kind = "err"

\* a file of three bytes was opened, read and stored
C31_WitnessStored ==
    /\ f_opened = "ok" /\ f_ret.kind = "ok"
    /\ Len(f_file.content) = 3 /\ f_object = File(f_file.content)

\* nth, count or last is suspended on a list call
Looping == pc \in {"nth", "count", "last"}

\* the step sends a list call on behalf of nth, count or last
LoopFetches == nlist' = nlist + 1 /\ pc' \in {"nth", "count", "last"}

====
